---- MODULE Spec2Model ----
(***************************************************************************)
(* pi-supervisor: the supervision control loop (index.ts), the supervisor  *)
(* state manager (state.ts) and the parts of the engine they call.         *)
(*                                                                         *)
(* Strings that the code slices or trims (model references, messages) are  *)
(* sequences of tokens, " " being white space; confidences are hundredths  *)
(* (0.85 is 85); an absent value (null / undefined) is the record Null.    *)
(***************************************************************************)
EXTENDS Integers, Sequences, FiniteSets, TLC

VARIABLES
    state,          \* SupervisorStateManager.state: Null or a SupervisorState
    idleSteers,     \* index.ts: consecutive agent_end steers
    log,            \* the session branch: entries appended by pi.appendEntry
    pending,        \* handlers suspended at `await analyze(...)`
    workspaceModel, \* contents of .pi/supervisor-config.json, or Null
    last            \* the handler step taken last and what it showed

vars == <<state, idleSteers, log, pending, workspaceModel, last>>

-----------------------------------------------------------------------------
(* Bounds of the model *)

MaxTurnIndex == 8
MaxTurnCount == 1
MaxInterventions == 1
MaxInFlight == 1

-----------------------------------------------------------------------------
(* Program constants *)

MAX_IDLE_STEERS == 5
ENTRY_TYPE == "supervisor-state"
DEFAULT_PROVIDER == <<"anthropic">>
DEFAULT_MODEL_ID == <<"claude-haiku-4-5-20251001">>
DEFAULT_SENSITIVITY == "medium"

Null == [null |-> TRUE]
Undefined == "undefined"

Sensitivity == {"low", "medium", "high"}
SupervisorAction == {"continue", "steer", "done"}

-----------------------------------------------------------------------------
(* Inputs *)

\* Outcomes the operator types (already trimmed, hence non-empty) and
\* outcomes the worker passes to the start_supervision tool (any string).
OperatorOutcomes == {"goal A"}
ToolOutcomes == {"", "goal B"}

\* Date.now()
Times == {1}

\* A model the host knows: ctx.model, a picked model, a config file's content.
OtherModel == [provider |-> <<"openai">>, modelId |-> <<"gpt-4o">>]
HostModels == {OtherModel}

\* `/supervise model <spec>` arguments and the tool's `model` parameter.
ModelSpecs == {<<"gpt-4o">>, <<"openai", "/", "gpt-4o">>}

SteerMessage == <<"Add the missing tests.">>
FallbackMessage == <<"Please continue working toward the goal.">>

Confidences == {50, 84, 85, 89, 90}

\* What parseDecision can return for a well-formed response.
ParsedDecisions ==
    [action : SupervisorAction,
     hasMessage : BOOLEAN,
     message : {<< >>, SteerMessage},
     reasoning : {"r"},
     confidence : Confidences]

\* safeContinue(reason)
safeContinue(reason) ==
    [action |-> "continue", hasMessage |-> FALSE, message |-> << >>,
     reasoning |-> reason, confidence |-> 0]

\* A catch that answers continue in both modes (C17 tells it apart).
AnalyzeFallback_AlwaysContinue(agentIsIdle) ==
    [action |-> "continue", hasMessage |-> FALSE, message |-> << >>,
     reasoning |-> "Analysis error", confidence |-> 0]

\* analyze(): the decision of callSupervisorModel, or the fallback of its catch.
AnalyzeFallback(agentIsIdle) ==
    IF agentIsIdle
    THEN [action |-> "steer", hasMessage |-> TRUE, message |-> FallbackMessage,
          reasoning |-> "Analysis error", confidence |-> 0]
    ELSE [action |-> "continue", hasMessage |-> FALSE, message |-> << >>,
          reasoning |-> "Analysis error", confidence |-> 0]

AnalyzeResults(agentIsIdle) ==
    {d \in ParsedDecisions : d.hasMessage \/ d.message = << >>}
        \cup {safeContinue("Model not found in registry")}
        \cup {AnalyzeFallback(agentIsIdle)}

\* JavaScript truthiness of decision.message
HasText(d) == d.hasMessage /\ d.message # << >>

-----------------------------------------------------------------------------
(* state.ts: SupervisorStateManager *)

\* Of the session branch the code reads the newest supervisor-state entry
\* only: once a newer one is appended, the older ones are dropped here.
Newest(entries) ==
    IF entries = << >> THEN entries ELSE <<entries[Len(entries)]>>

\* A store that appends nothing once the record is stopped (C11 tells it
\* apart).
persist_ActiveOnly(st, lg) ==
    IF st = Null \/ st.active = FALSE THEN lg
    ELSE Newest(Append(lg, [type |-> "custom", customType |-> ENTRY_TYPE,
                            data |-> st]))

\* persist(): appends a copy of the state to the session, if there is one.
persist(st, lg) ==
    IF st = Null THEN lg
    ELSE Newest(Append(lg, [type |-> "custom", customType |-> ENTRY_TYPE,
                            data |-> st]))

\* How many entries persist() appends.
Persisted(st) == IF st = Null THEN 0 ELSE 1

\* start(): the fresh record.
start(outcome, provider, modelId, sensitivity, now) ==
    [active |-> TRUE,
     outcome |-> outcome,
     provider |-> provider,
     modelId |-> modelId,
     sensitivity |-> sensitivity,
     interventions |-> << >>,
     startedAt |-> now,
     turnCount |-> 0]

\* A stop that leaves the record active (C15 tells it apart).
stop_StaysActive(st) == st

\* stop()
stop(st) == IF st = Null THEN st ELSE [st EXCEPT !.active = FALSE]

\* A manager that takes any record for an active one (C4 tells it apart).
isActive_AnyRecord(st) == st # Null

\* A manager that never reports an active record (C10 tells it apart).
isActive_Never(st) == FALSE

\* isActive()
isActive(st) == st # Null /\ st.active = TRUE

\* A store that keeps the latest intervention only (C26 tells it apart).
addIntervention_KeepsLatest(st, intervention) ==
    IF st = Null THEN st
    ELSE [st EXCEPT !.interventions = <<intervention>>]

\* addIntervention()
addIntervention(st, intervention) ==
    IF st = Null THEN st
    ELSE [st EXCEPT !.interventions = Append(@, intervention)]

\* incrementTurnCount(): no persist
incrementTurnCount(st) ==
    IF st = Null THEN st ELSE [st EXCEPT !.turnCount = @ + 1]

\* setModel()
setModel(st, provider, modelId) ==
    IF st = Null THEN st
    ELSE [st EXCEPT !.provider = provider, !.modelId = modelId]

\* setSensitivity()
setSensitivity(st, sensitivity) ==
    IF st = Null THEN st ELSE [st EXCEPT !.sensitivity = sensitivity]

\* A restore that takes the last custom entry, whoever wrote it (C13 tells it
\* apart).
RECURSIVE loadFromSession_AnyCustom(_)
loadFromSession_AnyCustom(entries) ==
    IF entries = << >> THEN Null
    ELSE LET entry == entries[Len(entries)]
         IN IF entry.type = "custom"
            THEN entry.data
            ELSE loadFromSession_AnyCustom(SubSeq(entries, 1, Len(entries) - 1))

\* loadFromSession(): the data of the last supervisor-state entry, else null.
RECURSIVE loadFromSession(_)
loadFromSession(entries) ==
    IF entries = << >> THEN Null
    ELSE LET entry == entries[Len(entries)]
         IN IF entry.type = "custom" /\ entry.customType = ENTRY_TYPE
            THEN entry.data
            ELSE loadFromSession(SubSeq(entries, 1, Len(entries) - 1))

-----------------------------------------------------------------------------
(* engine.ts: the parts of the prompt that depend on the supervision state *)

\* The template of the prompt, line by line in its order; the snapshot and
\* the formatted interventions stand as one line each.
PromptText(st, agentIsIdle, stagnating, withSensitivity) ==
    <<"DESIRED OUTCOME:", st.outcome>>
        \o (IF withSensitivity THEN <<"SENSITIVITY:", st.sensitivity>> ELSE << >>)
        \o <<IF agentIsIdle THEN "AGENT STATUS: IDLE" ELSE "AGENT STATUS: WORKING">>
        \o (IF stagnating THEN <<"STAGNATION">> ELSE << >>)
        \o <<"RECENT CONVERSATION:", "(snapshot)",
             "PREVIOUS INTERVENTIONS BY YOU:", "(intervention history)",
             "Analyze the conversation and the agent's current state.",
             "Respond with JSON only.">>

\* A prompt without the sensitivity label (C31 tells it apart).
buildUserPrompt_NoSensitivity(st, agentIsIdle, stagnating) ==
    [outcome |-> st.outcome,
     sensitivity |-> st.sensitivity,
     agentStatus |-> IF agentIsIdle THEN "IDLE" ELSE "WORKING",
     stagnationWarning |-> stagnating,
     text |-> PromptText(st, agentIsIdle, stagnating, FALSE)]

\* buildUserPrompt(): the values it puts in and the text it returns.
buildUserPrompt(st, agentIsIdle, stagnating) ==
    [outcome |-> st.outcome,
     sensitivity |-> st.sensitivity,
     agentStatus |-> IF agentIsIdle THEN "IDLE" ELSE "WORKING",
     stagnationWarning |-> stagnating,
     text |-> PromptText(st, agentIsIdle, stagnating, TRUE)]

-----------------------------------------------------------------------------
(* index.ts: handlers suspended at `await analyze(ctx, s, ...)` *)

\* What a suspended handler reads from `s` once it resumes.
View(st) ==
    [sensitivity |-> st.sensitivity, turnCount |-> st.turnCount,
     outcome |-> st.outcome]

\* `s` is a reference: a frame is live while `s` is still the manager's object.
\* `gate` is the sensitivity the mid-run gate read before the analysis
\* (the end-of-run handler has no such gate).
Frame(handler, st, stagnating) ==
    [handler |-> handler, live |-> TRUE, s |-> View(st),
     stagnating |-> stagnating,
     gate |-> IF handler = "turn_end" THEN st.sensitivity ELSE Undefined]

\* The manager's object was updated in place: live frames see the new fields.
Sync(frames, st) ==
    [k \in DOMAIN frames |->
        IF frames[k].live /\ st # Null
        THEN [frames[k] EXCEPT !.s = View(st)]
        ELSE frames[k]]

\* The manager now holds another object: suspended handlers keep the old one.
Detach(frames) ==
    [k \in DOMAIN frames |-> [frames[k] EXCEPT !.live = FALSE]]

Remove(frames, k) ==
    SubSeq(frames, 1, k - 1) \o SubSeq(frames, k + 1, Len(frames))

\* What the step taken last gave out: the handler or command it belongs to,
\* the decision analyze() returned to it, the mode it called analyze() in (""
\* when it did not), the prompt analyze() built, whether the handler threw,
\* the notice or tool reply it showed, the level or model that notice names,
\* the message it handed to pi.sendUserMessage and the number of entries it
\* appended to the session.
\* Null where there is none.
Quiet(on) ==
    [on |-> on, decision |-> Null, analyze |-> "", prompt |-> Null,
     threw |-> FALSE, notice |-> "", arg |-> Null, sent |-> Null,
     persisted |-> 0]

Analysed(on, agentIsIdle, prompt, threw) ==
    [Quiet(on) EXCEPT !.analyze = IF agentIsIdle THEN "idle" ELSE "working",
                      !.prompt = prompt, !.threw = threw]

Decided(on, decision) == [Quiet(on) EXCEPT !.decision = decision]

Notified(on, notice, persisted) ==
    [Quiet(on) EXCEPT !.notice = notice, !.persisted = persisted]

\* A notice that names a value: the level or the model it announces.
Announced(on, notice, arg, persisted) ==
    [Notified(on, notice, persisted) EXCEPT !.arg = arg]

Delivered(on, decision, deliverAs, persisted) ==
    [Quiet(on) EXCEPT !.decision = decision,
                      !.sent = [message |-> decision.message,
                                deliverAs |-> deliverAs],
                      !.persisted = persisted]

Init ==
    /\ state = Null
    /\ idleSteers = 0
    /\ log = << >>
    /\ pending = << >>
    /\ workspaceModel = Null
    /\ last = Quiet("")

-----------------------------------------------------------------------------
(* index.ts: session lifecycle *)

\* session_start / session_switch / session_fork / session_tree: the branch
\* the host now shows is the session as persisted (n = Len(log)), or one
\* without entries (n = 0).
SessionLoad(n) ==
    /\ n \in {0, Len(log)}
    /\ log' = SubSeq(log, 1, n)
    /\ state' = loadFromSession(log')
    /\ pending' = Detach(pending)
    /\ last' = Quiet("session")
    /\ UNCHANGED <<idleSteers, workspaceModel>>

-----------------------------------------------------------------------------
(* index.ts: mid-run checks, pi.on("turn_end") *)

\* Gates that C1, C2 and C3 tell apart from the code's: medium checking
\* every second sub-turn, low checking like medium, high checking from
\* sub-turn 1.
MidRunCheck_EverySecond(sensitivity, turnIndex) ==
    /\ sensitivity # "low"
    /\ ~(turnIndex < 2)
    /\ ~(sensitivity = "medium" /\ (turnIndex - 2) % 2 # 0)

MidRunCheck_LowAsMedium(sensitivity, turnIndex) ==
    /\ ~(turnIndex < 2)
    /\ ~(sensitivity \in {"low", "medium"} /\ (turnIndex - 2) % 3 # 0)

MidRunCheck_FromOne(sensitivity, turnIndex) ==
    /\ sensitivity # "low"
    /\ ~(turnIndex < 1)
    /\ ~(sensitivity = "medium" /\ (turnIndex - 2) % 3 # 0)

\* The gate on sensitivity and sub-turn index.
MidRunCheck(sensitivity, turnIndex) ==
    /\ sensitivity # "low"
    /\ ~(turnIndex < 2)
    /\ ~(sensitivity = "medium" /\ (turnIndex - 2) % 3 # 0)

\* One threshold for every sensitivity (C5 tells it apart).
Threshold_Flat(sensitivity) == 85

\* The confidence a mid-run steer needs, in hundredths.
Threshold(sensitivity) == IF sensitivity = "medium" THEN 90 ELSE 85

\* Acting on any confident decision that carries a message (C7 tells it apart).
MidRunSteers_AnyAction(decision, threshold) ==
    /\ HasText(decision)
    /\ decision.confidence >= threshold

\* Whether the handler acts on the decision.
MidRunSteers(decision, threshold) ==
    /\ decision.action = "steer"
    /\ HasText(decision)
    /\ decision.confidence >= threshold

\* The handler up to `await analyze(...)`. `fails`: analyze() rejects before
\* the model is called (reading the prompt file or the branch throws); the
\* handler catches that and returns.
TurnEnd(turnIndex, fails) ==
    IF ~isActive(state) \/ ~MidRunCheck(state.sensitivity, turnIndex)
    THEN /\ last' = Quiet("turn_end")
         /\ UNCHANGED <<state, idleSteers, log, pending, workspaceModel>>
    ELSE /\ last' = IF fails THEN Analysed("turn_end", FALSE, Null, FALSE)
                     ELSE Analysed("turn_end", FALSE,
                                   buildUserPrompt(state, FALSE, FALSE), FALSE)
         /\ pending' = IF fails THEN pending
                       ELSE Append(pending, Frame("turn_end", state, FALSE))
         /\ UNCHANGED <<state, idleSteers, log, workspaceModel>>

\* A mid-run handler that counts its steers like the end-of-run one (C24
\* tells it apart).
TurnEndResume_Counts(k, decision, now) ==
    /\ k \in DOMAIN pending
    /\ pending[k].handler = "turn_end"
    /\ LET s == pending[k].s
           threshold == Threshold(s.sensitivity)
       IN IF MidRunSteers(decision, threshold)
          THEN /\ state' = addIntervention(state,
                              [turnCount |-> s.turnCount,
                               message |-> decision.message,
                               reasoning |-> decision.reasoning,
                               timestamp |-> now])
               /\ log' = persist(state', log)
               /\ idleSteers' = idleSteers + 1
               /\ last' = Delivered("turn_end", decision, "steer",
                                    Persisted(state'))
          ELSE /\ last' = Decided("turn_end", decision)
               /\ UNCHANGED <<state, log, idleSteers>>
    /\ pending' = Remove(pending, k)
    /\ UNCHANGED workspaceModel

\* The rest of the handler, once analyze() has returned `decision`.
TurnEndResume(k, decision, now) ==
    /\ k \in DOMAIN pending
    /\ pending[k].handler = "turn_end"
    /\ LET s == pending[k].s
           threshold == Threshold(s.sensitivity)
       IN IF MidRunSteers(decision, threshold)
          THEN /\ state' = addIntervention(state,
                              [turnCount |-> s.turnCount,
                               message |-> decision.message,
                               reasoning |-> decision.reasoning,
                               timestamp |-> now])
               /\ log' = persist(state', log)
               /\ last' = Delivered("turn_end", decision, "steer",
                                    Persisted(state'))
          ELSE /\ last' = Decided("turn_end", decision)
               /\ UNCHANGED <<state, log>>
    /\ pending' = Remove(pending, k)
    /\ UNCHANGED <<idleSteers, workspaceModel>>

-----------------------------------------------------------------------------
(* index.ts: the end-of-run checkpoint, pi.on("agent_end") *)

\* Leniency one steer late (C8 tells it apart).
Stagnating_Late(steers) == steers > MAX_IDLE_STEERS

\* Stagnation: too many steers with no "done".
Stagnating(steers) == steers >= MAX_IDLE_STEERS

\* The handler up to `await analyze(...)`. `fails`: analyze() rejects before
\* the model is called; nothing catches that here.
AgentEnd(fails) ==
    IF ~isActive(state)
    THEN /\ last' = Quiet("agent_end")
         /\ UNCHANGED <<state, idleSteers, log, pending, workspaceModel>>
    ELSE LET s == incrementTurnCount(state)
             stagnating == Stagnating(idleSteers)
         IN /\ state' = s
            /\ pending' = IF fails THEN Sync(pending, s)
                          ELSE Append(Sync(pending, s),
                                      Frame("agent_end", s, stagnating))
            /\ last' = IF fails THEN Analysed("agent_end", TRUE, Null, TRUE)
                        ELSE Analysed("agent_end", TRUE,
                                      buildUserPrompt(s, TRUE, stagnating), FALSE)
            /\ UNCHANGED <<idleSteers, log, workspaceModel>>

\* An end-of-run handler for which continue clears the steer counter (C25
\* tells it apart).
AgentEndResume_ContinueResets(k, decision, now) ==
    /\ k \in DOMAIN pending
    /\ pending[k].handler = "agent_end"
    /\ LET s == pending[k].s
           stagnating == pending[k].stagnating
       IN IF decision.action = "steer" /\ HasText(decision)
          THEN /\ idleSteers' = idleSteers + 1
               /\ state' = addIntervention(state,
                              [turnCount |-> s.turnCount,
                               message |-> decision.message,
                               reasoning |-> decision.reasoning,
                               timestamp |-> now])
               /\ log' = persist(state', log)
               /\ pending' = Remove(pending, k)
               /\ last' = Delivered("agent_end", decision, Undefined,
                                    Persisted(state'))
          ELSE IF decision.action = "done"
          THEN /\ idleSteers' = 0
               /\ state' = stop(state)
               /\ log' = persist(state', log)
               /\ pending' = Remove(Sync(pending, state'), k)
               /\ last' = [Notified("agent_end",
                                     IF stagnating
                                     THEN "outcome achieved (after 5 steers)"
                                     ELSE "outcome achieved",
                                     Persisted(state'))
                            EXCEPT !.decision = decision]
          ELSE /\ pending' = Remove(pending, k)
               /\ last' = Decided("agent_end", decision)
               /\ idleSteers' = 0
               /\ UNCHANGED <<state, log>>
    /\ UNCHANGED workspaceModel

\* The rest of the handler, once analyze() has returned `decision`.
AgentEndResume(k, decision, now) ==
    /\ k \in DOMAIN pending
    /\ pending[k].handler = "agent_end"
    /\ LET s == pending[k].s
           stagnating == pending[k].stagnating
       IN IF decision.action = "steer" /\ HasText(decision)
          THEN /\ idleSteers' = idleSteers + 1
               /\ state' = addIntervention(state,
                              [turnCount |-> s.turnCount,
                               message |-> decision.message,
                               reasoning |-> decision.reasoning,
                               timestamp |-> now])
               /\ log' = persist(state', log)
               /\ pending' = Remove(pending, k)
               /\ last' = Delivered("agent_end", decision, Undefined,
                                    Persisted(state'))
          ELSE IF decision.action = "done"
          THEN /\ idleSteers' = 0
               /\ state' = stop(state)
               /\ log' = persist(state', log)
               /\ pending' = Remove(Sync(pending, state'), k)
               /\ last' = [Notified("agent_end",
                                     IF stagnating
                                     THEN "outcome achieved (after 5 steers)"
                                     ELSE "outcome achieved",
                                     Persisted(state'))
                            EXCEPT !.decision = decision]
          ELSE /\ pending' = Remove(pending, k)
               /\ last' = Decided("agent_end", decision)
               /\ UNCHANGED <<state, idleSteers, log>>
    /\ UNCHANGED workspaceModel

-----------------------------------------------------------------------------
(* index.ts and workspace-config.ts: the /supervise command *)

\* String.indexOf("/") on a token sequence, 0 when absent.
IndexOfSlash(spec) ==
    IF \E i \in DOMAIN spec : spec[i] = "/"
    THEN CHOOSE i \in DOMAIN spec :
            spec[i] = "/" /\ \A j \in 1..(i - 1) : spec[j] # "/"
    ELSE 0

\* saveWorkspaceModel(): writes only when .pi/ exists and the write succeeds.
saveWorkspaceModel(config, provider, modelId, writable) ==
    IF writable THEN [provider |-> provider, modelId |-> modelId] ELSE config

ModelNotice(active, saved) ==
    IF active
    THEN (IF saved THEN "model set, saved" ELSE "model set")
    ELSE (IF saved THEN "model set, takes effect on next /supervise, saved"
                   ELSE "model set, takes effect on next /supervise")

\* The common tail of `/supervise model`: apply, save, notify.
ApplyModel(provider, modelId, writable) ==
    /\ IF isActive(state)
       THEN /\ state' = setModel(state, provider, modelId)
            /\ log' = persist(state', log)
       ELSE UNCHANGED <<state, log>>
    /\ workspaceModel' = saveWorkspaceModel(workspaceModel, provider, modelId, writable)
    /\ last' = Announced("/supervise model",
                         ModelNotice(isActive(state), writable),
                         [provider |-> provider, modelId |-> modelId],
                         IF isActive(state) THEN 1 ELSE 0)
    /\ UNCHANGED <<idleSteers, pending>>

\* A stop that keeps the steer counter (C9 tells it apart).
CmdStop_KeepsCounter ==
    IF ~isActive(state)
    THEN /\ last' = Notified("/supervise stop", "not active", 0)
         /\ UNCHANGED <<state, idleSteers, log, pending, workspaceModel>>
    ELSE /\ state' = stop(state)
         /\ log' = persist(state', log)
         /\ last' = Notified("/supervise stop", "stopped", Persisted(state'))
         /\ UNCHANGED <<idleSteers, pending, workspaceModel>>

\* /supervise stop
CmdStop ==
    IF ~isActive(state)
    THEN /\ last' = Notified("/supervise stop", "not active", 0)
         /\ UNCHANGED <<state, idleSteers, log, pending, workspaceModel>>
    ELSE /\ state' = stop(state)
         /\ log' = persist(state', log)
         /\ idleSteers' = 0
         /\ last' = Notified("/supervise stop", "stopped", Persisted(state'))
         /\ UNCHANGED <<pending, workspaceModel>>

\* /supervise model           (picker; `picked` is Null when cancelled)
CmdModelPick(picked, writable) ==
    IF picked = Null
    THEN /\ last' = Quiet("/supervise model")
         /\ UNCHANGED <<state, idleSteers, log, pending, workspaceModel>>
    ELSE ApplyModel(picked.provider, picked.modelId, writable)

\* /supervise model <spec>
CmdModelSet(spec, writable) ==
    LET slashIdx == IndexOfSlash(spec)
        provider == IF slashIdx = 0
                    THEN (IF state # Null THEN state.provider ELSE DEFAULT_PROVIDER)
                    ELSE SubSeq(spec, 1, slashIdx - 1)
        modelId == IF slashIdx = 0 THEN spec
                   ELSE SubSeq(spec, slashIdx + 1, Len(spec))
    IN ApplyModel(provider, modelId, writable)

\* /supervise sensitivity <level>
CmdSensitivity(level) ==
    IF level \notin Sensitivity
    THEN /\ last' = Notified("/supervise sensitivity", "usage", 0)
         /\ UNCHANGED <<state, idleSteers, log, pending, workspaceModel>>
    ELSE IF ~isActive(state)
    THEN /\ last' = Announced("/supervise sensitivity",
                              "will be set on next /supervise",
                              [level |-> level], 0)
         /\ UNCHANGED <<state, idleSteers, log, pending, workspaceModel>>
    ELSE /\ state' = setSensitivity(state, level)
         /\ log' = persist(state', log)
         /\ pending' = Sync(pending, state')
         /\ last' = Announced("/supervise sensitivity", "sensitivity set",
                              [level |-> level], Persisted(state'))
         /\ UNCHANGED <<idleSteers, workspaceModel>>

\* A chain that asks the config file before the record (C21 tells it apart).
Coalesce_ConfigFirst(a, b, c) ==
    IF b # Null THEN b ELSE IF a # Null THEN a ELSE c

\* First of the candidates that is not null (the `??` chain).
Coalesce(a, b, c) == IF a # Null THEN a ELSE IF b # Null THEN b ELSE c

DefaultModel == [provider |-> DEFAULT_PROVIDER, modelId |-> DEFAULT_MODEL_ID]

ModelOf(st) ==
    IF st = Null THEN Null ELSE [provider |-> st.provider, modelId |-> st.modelId]

\* /supervise <outcome>
CmdStart(outcome, sessionModel, apiKey, picked, now) ==
    LET existing == state
        resolved == Coalesce(ModelOf(existing), workspaceModel,
                             Coalesce(sessionModel, Null, DefaultModel))
        sensitivity == IF existing # Null THEN existing.sensitivity
                       ELSE DEFAULT_SENSITIVITY
        cancelled == existing = Null /\ ~apiKey /\ picked = Null
        model == IF existing = Null /\ ~apiKey THEN picked ELSE resolved
    IN IF cancelled
       THEN /\ last' = Notified("/supervise", "no API key", 0)
            /\ UNCHANGED <<state, idleSteers, log, pending, workspaceModel>>
       ELSE /\ state' = start(outcome, model.provider, model.modelId, sensitivity, now)
            /\ log' = persist(state', log)
            /\ idleSteers' = 0
            /\ pending' = Detach(pending)
            /\ last' = Notified("/supervise", "supervisor active",
                                Persisted(state'))
            /\ UNCHANGED workspaceModel

-----------------------------------------------------------------------------
(* index.ts: the start_supervision tool *)

ToolStart(outcome, sensitivityParam, modelParam, sessionModel, now) ==
    IF isActive(state)
    THEN /\ last' = Notified("start_supervision", "already active", 0)
         /\ UNCHANGED <<state, idleSteers, log, pending, workspaceModel>>
    ELSE LET sensitivity == IF sensitivityParam = Undefined
                            THEN DEFAULT_SENSITIVITY ELSE sensitivityParam
             slash == IndexOfSlash(modelParam)
             model ==
                IF modelParam # << >>
                THEN [provider |-> IF slash = 0 THEN DEFAULT_PROVIDER
                                   ELSE SubSeq(modelParam, 1, slash - 1),
                      modelId |-> IF slash = 0 THEN modelParam
                                  ELSE SubSeq(modelParam, slash + 1, Len(modelParam))]
                ELSE Coalesce(workspaceModel, sessionModel, DefaultModel)
         IN /\ state' = start(outcome, model.provider, model.modelId, sensitivity, now)
            /\ log' = persist(state', log)
            /\ idleSteers' = 0
            /\ pending' = Detach(pending)
            /\ last' = Notified("start_supervision", "supervision active",
                                Persisted(state'))
            /\ UNCHANGED workspaceModel

-----------------------------------------------------------------------------
(* The control loop: host events, analyses, stop / start / sensitivity *)

\* Inputs of the start paths
SessionModels == {Null}
ApiKeys == {TRUE}
Picks == {Null}
ToolSensitivities == {Undefined, "high"}
ToolModels == {<< >>}

\* What the model explores of the unbounded counters and sequences.
Bounded ==
    /\ Len(pending) <= MaxInFlight
    /\ state # Null =>
          /\ state.turnCount <= MaxTurnCount
          /\ Len(state.interventions) <= MaxInterventions

Next ==
    \/ \E n \in 0..1 : SessionLoad(n) /\ Bounded'
    \/ \E turnIndex \in 0..MaxTurnIndex, fails \in BOOLEAN :
           TurnEnd(turnIndex, fails) /\ Bounded'
    \/ \E k \in 1..MaxInFlight, d \in AnalyzeResults(FALSE), now \in Times :
           TurnEndResume(k, d, now) /\ Bounded'
    \/ \E fails \in BOOLEAN : AgentEnd(fails) /\ Bounded'
    \/ \E k \in 1..MaxInFlight, d \in AnalyzeResults(TRUE), now \in Times :
           AgentEndResume(k, d, now) /\ Bounded'
    \/ CmdStop /\ Bounded'
    \/ \E level \in Sensitivity \cup {"bogus"} : CmdSensitivity(level) /\ Bounded'
    \/ \E outcome \in OperatorOutcomes, sessionModel \in SessionModels,
          apiKey \in ApiKeys, picked \in Picks, now \in Times :
           CmdStart(outcome, sessionModel, apiKey, picked, now) /\ Bounded'
    \/ \E outcome \in ToolOutcomes, sensitivityParam \in ToolSensitivities,
          modelParam \in ToolModels,
          sessionModel \in SessionModels, now \in Times :
           ToolStart(outcome, sensitivityParam, modelParam, sessionModel, now)
               /\ Bounded'

Spec == Init /\ [][Next]_vars

-----------------------------------------------------------------------------
(* Properties of the trigger rules *)

\* The program's state without the record of the last step.
prog == <<state, idleSteers, log, pending, workspaceModel>>

Active == state # Null /\ state.active = TRUE
Inactive == state = Null \/ state.active = FALSE

\* A turn_end event with this sub-turn index calls analyze().
MidRunAnalysis(turnIndex, fails) ==
    TurnEnd(turnIndex, fails) /\ last'.analyze # ""

\* The sub-turn indices 2, 5, 8, 11, ...
Cadence == {2, 5, 8, 11, 14}

\* C1: while supervision is active with sensitivity medium, a mid-run event
\* with sub-turn index i invokes an analysis exactly when i >= 2 and i - 2 is
\* a multiple of 3 (indices 2, 5, 8, ...), and that analysis is a mid-run one.
C1_MediumCadence ==
    (Active /\ state.sensitivity = "medium") =>
        \A i \in 0..MaxTurnIndex, fails \in BOOLEAN :
            /\ (ENABLED MidRunAnalysis(i, fails)) <=> (i \in Cadence)
            /\ ~ENABLED (TurnEnd(i, fails) /\ last'.analyze = "idle")

\* C1 witness: a mid-run analysis was invoked under medium sensitivity.
C1_Witness ==
    /\ Active /\ state.sensitivity = "medium"
    /\ last.on = "turn_end" /\ last.analyze = "working"
    /\ last.prompt # Null /\ last.prompt.sensitivity = "medium"

\* C2: while the sensitivity is low, no mid-run event of any sub-turn index
\* invokes an analysis or changes the state.
C2_LowNoMidRun ==
    (state # Null /\ state.sensitivity = "low") =>
        \A i \in 0..MaxTurnIndex, fails \in BOOLEAN :
            ~ENABLED (TurnEnd(i, fails) /\ (last'.analyze # "" \/ prog' # prog))

\* C2 witness: a mid-run event was handled under active low sensitivity.
C2_Witness ==
    /\ Active /\ state.sensitivity = "low"
    /\ last.on = "turn_end" /\ last.analyze = ""

\* C3: while supervision is active with sensitivity high, every mid-run event
\* with sub-turn index >= 2 invokes an analysis, and those with index 0 or 1
\* invoke none.
C3_HighEveryTurn ==
    (Active /\ state.sensitivity = "high") =>
        \A i \in 0..MaxTurnIndex, fails \in BOOLEAN :
            (ENABLED MidRunAnalysis(i, fails)) <=> (i \notin {0, 1})

\* C3 witness: a mid-run analysis was invoked under high sensitivity.
C3_Witness ==
    /\ Active /\ state.sensitivity = "high"
    /\ last.on = "turn_end" /\ last.analyze = "working"
    /\ last.prompt # Null /\ last.prompt.sensitivity = "high"

\* C4: an agent_end event received while supervision is active invokes an
\* analysis in idle mode, whatever the sensitivity; an agent_end or turn_end
\* event received while supervision is inactive, or while there is no record,
\* invokes no analysis and changes no state.
C4_EndOfRunAlways ==
    /\ Active =>
          \A fails \in BOOLEAN :
              /\ ENABLED (AgentEnd(fails) /\ last'.analyze = "idle")
              /\ ~ENABLED (AgentEnd(fails) /\ last'.analyze # "idle")
    /\ Inactive =>
          \A i \in 0..MaxTurnIndex, fails \in BOOLEAN :
              /\ ~ENABLED (TurnEnd(i, fails)
                             /\ (last'.analyze # "" \/ prog' # prog))
              /\ ~ENABLED (AgentEnd(fails)
                             /\ (last'.analyze # "" \/ prog' # prog))

\* C4 witness: an end-of-run analysis was invoked under low sensitivity.
C4_Witness ==
    /\ Active /\ state.sensitivity = "low"
    /\ last.on = "agent_end" /\ last.analyze = "idle"
    /\ last.prompt # Null /\ last.prompt.agentStatus = "IDLE"

-----------------------------------------------------------------------------
(* Properties of the mid-run decisions *)

\* The suspended turn_end handlers whose record has a mid-run sensitivity.
MidRunPending ==
    {k \in DOMAIN pending :
        /\ pending[k].handler = "turn_end"
        /\ pending[k].s.sensitivity \in {"medium", "high"}}

\* The documented thresholds, in hundredths.
DocThreshold(sensitivity) ==
    CASE sensitivity = "medium" -> 90
      [] sensitivity = "high" -> 85

\* The step gave nothing to the worker and wrote nothing.
NoEffect ==
    /\ state' = state
    /\ idleSteers' = idleSteers
    /\ log' = log
    /\ last'.sent = Null
    /\ last'.persisted = 0
    /\ last'.notice = ""

\* C5: a mid-run analysis that returns steer with a confidence below the
\* threshold of the sensitivity (90 for medium, 85 for high) appends no
\* intervention, delivers no message, appends no session entry and leaves
\* the record and the idle-steer counter unchanged.
C5_BelowThreshold ==
    \A k \in MidRunPending, d \in AnalyzeResults(FALSE), now \in Times :
        (d.action = "steer"
            /\ d.confidence < DocThreshold(pending[k].s.sensitivity)) =>
            ~ENABLED (TurnEndResume(k, d, now) /\ ~NoEffect)

\* C5 witness: a steer at 0.89 came back under medium and nothing was sent.
C5_Witness ==
    /\ Active /\ state.sensitivity = "medium"
    /\ last.on = "turn_end" /\ last.decision # Null
    /\ last.decision.action = "steer" /\ last.decision.message = SteerMessage
    /\ last.decision.confidence = 89
    /\ last.sent = Null /\ last.persisted = 0

\* The step appended exactly one intervention carrying the decision's message
\* and handed that message to the worker as a steer-mode message.
SteeredMidRun(d) ==
    /\ state # Null /\ state' # Null
    /\ Len(state'.interventions) = Len(state.interventions) + 1
    /\ SubSeq(state'.interventions, 1, Len(state.interventions))
          = state.interventions
    /\ state'.interventions[Len(state'.interventions)].message = d.message
    /\ last'.sent = [message |-> d.message, deliverAs |-> "steer"]

\* C6: a mid-run analysis that returns steer with a non-empty message and a
\* confidence at or above the threshold of the sensitivity (>= 90 for medium,
\* >= 85 for high) appends exactly one intervention and delivers the message
\* as a steer-mode message in the same handler.
C6_AtThreshold ==
    \A k \in MidRunPending, d \in AnalyzeResults(FALSE), now \in Times :
        (d.action = "steer" /\ d.hasMessage /\ d.message # << >>
            /\ d.confidence >= DocThreshold(pending[k].s.sensitivity)) =>
            ~ENABLED (TurnEndResume(k, d, now) /\ ~SteeredMidRun(d))

\* C6, where the manager still holds a record when the decision arrives.
C6_WithRecord ==
    \A k \in MidRunPending, d \in AnalyzeResults(FALSE), now \in Times :
        (state # Null
            /\ d.action = "steer" /\ d.hasMessage /\ d.message # << >>
            /\ d.confidence >= DocThreshold(pending[k].s.sensitivity)) =>
            ~ENABLED (TurnEndResume(k, d, now) /\ ~SteeredMidRun(d))

\* C6 witness: a steer at exactly 0.90 under medium was delivered and recorded.
C6_Witness ==
    /\ Active /\ state.sensitivity = "medium"
    /\ last.on = "turn_end" /\ last.decision # Null
    /\ last.decision.confidence = 90
    /\ last.sent = [message |-> SteerMessage, deliverAs |-> "steer"]
    /\ Len(state.interventions) = 1 /\ last.persisted = 1

\* C7: a mid-run analysis that returns done or continue, at any confidence,
\* takes no action: the record is left as it is (still active), no
\* intervention is appended, no message is delivered and the idle-steer
\* counter is unchanged.
C7_NoMidRunCompletion ==
    \A k \in DOMAIN pending, d \in AnalyzeResults(FALSE), now \in Times :
        (pending[k].handler = "turn_end" /\ d.action \in {"done", "continue"}) =>
            ~ENABLED (TurnEndResume(k, d, now) /\ ~NoEffect)

\* C7 witness: a done at 0.90 with a message came back mid-run and the record
\* is still active, without interventions.
C7_Witness ==
    /\ Active /\ state.interventions = << >>
    /\ last.on = "turn_end" /\ last.decision # Null
    /\ last.decision.action = "done" /\ last.decision.confidence = 90
    /\ last.decision.message = SteerMessage
    /\ last.sent = Null

-----------------------------------------------------------------------------
(* Properties of the steer counter and of the start paths *)

\* C9: the idle-steer counter is 0 right after an end-of-run done verdict,
\* after the operator's stop of an active supervision, after the operator's
\* start and after an accepted start by the worker.
C9_CounterResets ==
    /\ \A k \in DOMAIN pending, d \in AnalyzeResults(TRUE), now \in Times :
          d.action = "done" =>
              ~ENABLED (AgentEndResume(k, d, now) /\ idleSteers' # 0)
    /\ Active => ~ENABLED (CmdStop /\ idleSteers' # 0)
    /\ \A outcome \in OperatorOutcomes, sessionModel \in SessionModels,
          apiKey \in ApiKeys, picked \in Picks, now \in Times :
          ~ENABLED (CmdStart(outcome, sessionModel, apiKey, picked, now)
                      /\ last'.notice = "supervisor active"
                      /\ idleSteers' # 0)
    /\ Inactive =>
          \A outcome \in ToolOutcomes, sensitivityParam \in ToolSensitivities,
             modelParam \in ToolModels, sessionModel \in SessionModels,
             now \in Times :
             ~ENABLED (ToolStart(outcome, sensitivityParam, modelParam,
                                 sessionModel, now) /\ idleSteers' # 0)

\* C9 witness: the counter is 1, the record is active and an end-of-run
\* analysis is in flight: a done verdict, a stop or a start resets it.
C9_Witness ==
    /\ idleSteers = 1 /\ Active
    /\ \E k \in DOMAIN pending : pending[k].handler = "agent_end"
    /\ last.on = "agent_end" /\ last.analyze = "idle"

\* C10: a start_supervision call received while supervision is active returns
\* the rejection, leaves the record (outcome, model, sensitivity,
\* interventions, turnCount) and the idle-steer counter unchanged and appends
\* no session entry.
C10_ToolStartRejected ==
    Active =>
        \A outcome \in ToolOutcomes, sensitivityParam \in ToolSensitivities,
           modelParam \in ToolModels, sessionModel \in SessionModels,
           now \in Times :
           ~ENABLED (ToolStart(outcome, sensitivityParam, modelParam,
                               sessionModel, now)
                       /\ ~(/\ prog' = prog
                            /\ last'.notice = "already active"
                            /\ last'.persisted = 0
                            /\ last'.sent = Null))

\* C10 witness: the tool was rejected while the operator's supervision, with
\* a steer already counted, was active.
C10_Witness ==
    /\ Active /\ state.outcome \in OperatorOutcomes
    /\ idleSteers = 1 /\ Len(state.interventions) = 1
    /\ last.on = "start_supervision" /\ last.notice = "already active"
    /\ last.persisted = 0

-----------------------------------------------------------------------------
(* Stagnation: one supervision steered at the end of run after run *)

\* The steers explored, and the runs that may end without an intervention.
MaxSteers == 6
MaxQuietRuns == 1

\* The verdicts of the end-of-run and mid-run analyses in this scenario.
StagnationDecisions ==
    {d \in ParsedDecisions :
        /\ d.confidence = 90
        /\ d.reasoning = "r"
        /\ \/ d.action = "steer" /\ d.hasMessage /\ d.message = SteerMessage
           \/ d.action \in {"done", "continue"} /\ ~d.hasMessage /\ d.message = << >>}

BoundedStagnation ==
    /\ Len(pending) <= MaxInFlight
    /\ idleSteers <= MaxSteers
    /\ state # Null =>
          /\ Len(state.interventions) <= MaxSteers
          /\ state.turnCount <= Len(state.interventions) + MaxQuietRuns

NextStagnation ==
    \/ TurnEnd(2, FALSE) /\ BoundedStagnation'
    \/ \E d \in StagnationDecisions, now \in Times :
           TurnEndResume(1, d, now) /\ BoundedStagnation'
    \/ AgentEnd(FALSE) /\ BoundedStagnation'
    \/ \E d \in StagnationDecisions, now \in Times :
           AgentEndResume(1, d, now) /\ BoundedStagnation'
    \/ CmdStop /\ BoundedStagnation'
    \/ \E outcome \in OperatorOutcomes, now \in Times :
           CmdStart(outcome, Null, TRUE, Null, now) /\ BoundedStagnation'

SpecStagnation == Init /\ [][NextStagnation]_vars

\* The step is an end-of-run steer outcome: its message went to the worker.
EndOfRunSteer ==
    /\ last'.on = "agent_end"
    /\ last'.decision # Null /\ last'.decision.action = "steer"
    /\ last'.sent # Null

\* The step is a done verdict, a stop of an active supervision or a start.
CounterReset ==
    \/ last'.on = "agent_end" /\ last'.decision # Null
          /\ last'.decision.action = "done"
    \/ last'.on = "/supervise stop" /\ Active
    \/ last'.on = "/supervise" /\ last'.notice = "supervisor active"
    \/ last'.on = "start_supervision" /\ last'.notice = "supervision active"

\* The end-of-run analysis just invoked is lenient exactly from 5 steers on.
LenientFromFive ==
    (last.on = "agent_end" /\ last.analyze = "idle" /\ last.prompt # Null) =>
        (last.prompt.stagnationWarning <=> idleSteers >= 5)

\* C8: the counter counts the end-of-run steer outcomes since the last done,
\* stop or start, and an end-of-run analysis is lenient (its prompt carries
\* the stagnation clause) exactly when it is invoked with 5 or more of them:
\* after 5 it is lenient, with fewer than 5 it is not.
C8_LenientAfterFive ==
    [][/\ idleSteers' = IF EndOfRunSteer THEN idleSteers + 1
                         ELSE IF CounterReset THEN 0
                         ELSE idleSteers
       /\ LenientFromFive']_vars

\* C8 witness: the sixth end-of-run analysis in a row after five steers was
\* invoked in lenient mode.
C8_Witness ==
    /\ idleSteers = 5 /\ Active
    /\ Len(state.interventions) >= 5
    /\ last.on = "agent_end" /\ last.analyze = "idle"
    /\ last.prompt # Null /\ last.prompt.stagnationWarning = TRUE

-----------------------------------------------------------------------------
(* Properties of persistence *)

\* The operator's stop of an active supervision has just been handled.
Stopped == last.on = "/supervise stop" /\ last.notice = "stopped"

C12_PersistedIsCurrent ==
    state # Null =>
        /\ loadFromSession(log) = state
        /\ ~ENABLED (SessionLoad(Len(log)) /\ state' # state)

\* C12, but for the run counter: the persisted entry differs from the record
\* in memory in turnCount at most.
C12_UpToTurnCount ==
    state # Null =>
        /\ loadFromSession(log) # Null
        /\ [loadFromSession(log) EXCEPT !.turnCount = state.turnCount] = state

\* C12 witness: an end-of-run event has counted a run of an active record.
C12_Witness ==
    /\ Active /\ state.turnCount = 1
    /\ last.on = "agent_end" /\ last.analyze = "idle"
    /\ loadFromSession(log).turnCount = 0

-----------------------------------------------------------------------------
(* Sessions: the host switches to branches written earlier or elsewhere *)

MaxBranch == 3

\* Records found in session files: the record /supervise wrote at its start,
\* and a stopped one of an earlier supervision.
StartedRecord ==
    start("goal A", DEFAULT_PROVIDER, DEFAULT_MODEL_ID, DEFAULT_SENSITIVITY, 1)
StoppedRecord ==
    stop(start("goal B", DEFAULT_PROVIDER, DEFAULT_MODEL_ID, "high", 1))

\* Entries of a branch: a message, another extension's custom entry and
\* supervisor-state entries.
MessageEntry == [type |-> "message", customType |-> "", data |-> Null]
ForeignEntry ==
    [type |-> "custom", customType |-> "other-extension",
     data |-> [foreign |-> TRUE]]
StateEntry(st) == [type |-> "custom", customType |-> ENTRY_TYPE, data |-> st]

SessionEntries ==
    {MessageEntry, ForeignEntry, StateEntry(StartedRecord),
     StateEntry(StoppedRecord)}

\* ctx.sessionManager.getBranch() of the session switched to.
Branches ==
    UNION {[1..n -> SessionEntries] : n \in 0..MaxBranch}

\* session_switch / session_fork / session_tree to such a branch.
SessionSwitch(entries) ==
    /\ log' = entries
    /\ state' = loadFromSession(entries)
    /\ pending' = Detach(pending)
    /\ last' = Quiet("session")
    /\ UNCHANGED <<idleSteers, workspaceModel>>

\* A switch does not reset the steer counter: it is bounded here.
BoundedSessions == Bounded /\ idleSteers <= MaxInterventions + 1

NextSessions ==
    \/ \E entries \in Branches : SessionSwitch(entries) /\ BoundedSessions'
    \/ \E turnIndex \in {1, 2}, fails \in BOOLEAN :
           TurnEnd(turnIndex, fails) /\ BoundedSessions'
    \/ \E d \in StagnationDecisions, now \in Times :
           TurnEndResume(1, d, now) /\ BoundedSessions'
    \/ \E fails \in BOOLEAN : AgentEnd(fails) /\ BoundedSessions'
    \/ \E d \in StagnationDecisions, now \in Times :
           AgentEndResume(1, d, now) /\ BoundedSessions'
    \/ CmdStop /\ BoundedSessions'
    \/ \E outcome \in OperatorOutcomes, now \in Times :
           CmdStart(outcome, Null, TRUE, Null, now) /\ BoundedSessions'

SpecSessions == Init /\ [][NextSessions]_vars

\* The data of the last supervisor-state entry of a branch, Null without one.
LastSupervisorState(entries) ==
    LET own == {i \in DOMAIN entries :
                   /\ entries[i].type = "custom"
                   /\ entries[i].customType = "supervisor-state"}
    IN IF own = {} THEN Null
       ELSE entries[CHOOSE i \in own : \A j \in own : j <= i].data

\* C13: a session-restore sets the record in memory to the data of the last
\* supervisor-state entry of the session's branch, whatever entries of other
\* types follow it, and to no record when the branch has no such entry,
\* whatever record was in memory before.
C13_RestoreLatest ==
    /\ \A entries \in Branches :
          ~ENABLED (SessionSwitch(entries)
                      /\ state' # LastSupervisorState(entries))
    /\ \A n \in {0, Len(log)} :
          ~ENABLED (SessionLoad(n)
                      /\ state' # LastSupervisorState(SubSeq(log, 1, n)))

\* C13 witness: with another record in the branch before it and entries of
\* other types after it, the stopped record was restored.
C13_Witness ==
    /\ last.on = "session"
    /\ log = <<StateEntry(StartedRecord), StateEntry(StoppedRecord),
               ForeignEntry>>
    /\ state = StoppedRecord

-----------------------------------------------------------------------------
(* Properties of the record *)

\* C14: in every reachable state an active record has a non-empty outcome,
\* whether the operator or the worker started the supervision.
C14_ActiveHasOutcome ==
    Active => state.outcome # ""

\* C14 witness: the worker's start with an empty outcome was accepted.
C14_Witness ==
    /\ Active /\ state.outcome = ""
    /\ last.on = "start_supervision" /\ last.notice = "supervision active"

-----------------------------------------------------------------------------
(* Properties of completion *)

CompletionNotices == {"outcome achieved", "outcome achieved (after 5 steers)"}

\* What a done verdict does to the record then in memory.
DoneEffect ==
    /\ idleSteers' = 0
    /\ state' = Null \/ state'.active = FALSE
    /\ state # Null =>
          /\ state' = [state EXCEPT !.active = FALSE]
          /\ loadFromSession(log') = state'
          /\ last'.persisted = 1
    /\ last'.notice \in CompletionNotices
    /\ last'.sent = Null

\* A done verdict has just been handled.
DoneHandled ==
    last.on = "agent_end" /\ last.decision # Null /\ last.decision.action = "done"

\* Every end-of-run done verdict has DoneEffect.
DoneStops ==
    \A k \in DOMAIN pending, d \in StagnationDecisions, now \in Times :
        d.action = "done" => ~ENABLED (AgentEndResume(k, d, now) /\ ~DoneEffect)

\* While the record is inactive no event invokes an analysis, and no event,
\* verdict or stop makes it active.
InactiveStaysQuiet ==
    Inactive =>
        /\ \A i \in 0..MaxTurnIndex, fails \in BOOLEAN :
              /\ ~ENABLED (TurnEnd(i, fails) /\ (last'.analyze # "" \/ Active'))
              /\ ~ENABLED (AgentEnd(fails) /\ (last'.analyze # "" \/ Active'))
        /\ \A k \in DOMAIN pending, d \in StagnationDecisions, now \in Times :
              /\ ~ENABLED (TurnEndResume(k, d, now)
                             /\ (last'.analyze # "" \/ Active'))
              /\ ~ENABLED (AgentEndResume(k, d, now)
                             /\ (last'.analyze # "" \/ Active'))
        /\ ~ENABLED (CmdStop /\ Active')

\* C15 as stated: an end-of-run done resets the counter, marks the record
\* inactive keeping its history, persists it and shows the completion
\* notice; and no later event invokes an analysis until a new start, a
\* session event included.
C15_DoneUntilStart ==
    /\ DoneStops
    /\ InactiveStaysQuiet
    /\ DoneHandled =>
          \A entries \in Branches : ~ENABLED (SessionSwitch(entries) /\ Active')

\* C15 amended: as above, until a new start or a session-restore whose branch
\* ends in an active record.
C15_DoneUntilStartOrRestore ==
    /\ DoneStops
    /\ InactiveStaysQuiet
    /\ DoneHandled =>
          \A entries \in Branches :
              ~ENABLED (SessionSwitch(entries) /\ Active'
                          /\ ~(LastSupervisorState(entries) # Null
                                 /\ LastSupervisorState(entries).active = TRUE))

\* C15 witness: a done verdict stopped a record that holds an intervention.
C15_Witness ==
    /\ DoneHandled
    /\ state # Null /\ state.active = FALSE
    /\ Len(state.interventions) = 1
    /\ idleSteers = 0
    /\ last.notice = "outcome achieved" /\ last.persisted = 1
    /\ loadFromSession(log) = state

-----------------------------------------------------------------------------
(* model-client.ts and engine.ts: one analysis, with its failures *)

\* Where the call of the supervisor model fails, if it does: the registry
\* has no such model, loader.reload() rejects, createAgentSession rejects,
\* session.prompt rejects.
CallFailures == {"none", "model not found", "loader", "session", "prompt"}

Returned(decision) == [threw |-> FALSE, decision |-> decision]
Thrown == [threw |-> TRUE, decision |-> Null]

\* A parse that keeps the message as written (C19 tells it apart).
trim_Nothing(message) == message

\* String.prototype.trim() on a token sequence.
RECURSIVE trim(_)
trim(tokens) ==
    IF tokens = << >> THEN tokens
    ELSE IF Head(tokens) = " " THEN trim(Tail(tokens))
    ELSE IF tokens[Len(tokens)] = " "
         THEN trim(SubSeq(tokens, 1, Len(tokens) - 1))
    ELSE tokens

\* The `message` of the JSON object: Undefined when it has none (or not a
\* string).
RawMessages ==
    {Undefined, << >>, <<" ">>, <<" ", " ">>,
     <<" ">> \o SteerMessage \o <<" ">>, SteerMessage}

\* The `action` of the JSON object: absent, a valid one, or another string.
RawActions == SupervisorAction \cup {Undefined, "bogus", "Steer"}

\* The `confidence` of the JSON object by its typeof: absent, a string, or a
\* number (in hundredths), which JSON does not confine to 0..1.
RawConfidences ==
    {[typeof |-> "undefined", value |-> 0], [typeof |-> "string", value |-> 90],
     [typeof |-> "number", value |-> 0], [typeof |-> "number", value |-> 90],
     [typeof |-> "number", value |-> 150], [typeof |-> "number", value |-> -10]}

\* The responses that JSON.parse turns into an object.
Responses ==
    [json : {"object"}, action : RawActions, message : RawMessages,
     reasoning : {"r"}, confidence : RawConfidences]

\* A response is the text after the fence or brace extraction, told by what
\* JSON.parse makes of it: a syntax error, null, a number, or an object.
Texts ==
    Responses \cup {[json |-> j] : j \in {"syntax error", "null", "number"}}

\* A parse that passes on whatever action the object has, and none as
\* continue (C22 tells it apart).
parseDecision_AnyAction(text) ==
    IF text.json # "object"
    THEN safeContinue("Failed to parse supervisor JSON decision")
    ELSE [action |-> IF text.action = Undefined THEN "continue" ELSE text.action,
          hasMessage |-> text.message # Undefined,
          message |-> IF text.message = Undefined THEN << >>
                      ELSE trim(text.message),
          reasoning |-> text.reasoning,
          confidence |-> IF text.confidence.typeof = "number"
                         THEN text.confidence.value ELSE 50]

\* A parse whose default confidence is 1 (C23 tells it apart).
parseDecision_DefaultCertain(text) ==
    IF text.json \in {"syntax error", "null"}
    THEN safeContinue("Failed to parse supervisor JSON decision")
    ELSE IF text.json # "object"
    THEN safeContinue("Invalid action in supervisor response")
    ELSE IF text.action \notin {"continue", "steer", "done"}
    THEN safeContinue("Invalid action in supervisor response")
    ELSE [action |-> text.action,
          hasMessage |-> text.message # Undefined,
          message |-> IF text.message = Undefined THEN << >>
                      ELSE trim(text.message),
          reasoning |-> text.reasoning,
          confidence |-> IF text.confidence.typeof = "number"
                         THEN text.confidence.value ELSE 100]

\* parseDecision(): JSON.parse throws on a syntax error, and reading
\* `parsed.action` throws on null, both inside the try; a number has no
\* `action`.
parseDecision(text) ==
    IF text.json \in {"syntax error", "null"}
    THEN safeContinue("Failed to parse supervisor JSON decision")
    ELSE IF text.json # "object"
    THEN safeContinue("Invalid action in supervisor response")
    ELSE IF text.action \notin {"continue", "steer", "done"}
    THEN safeContinue("Invalid action in supervisor response")
    ELSE [action |-> text.action,
          hasMessage |-> text.message # Undefined,
          message |-> IF text.message = Undefined THEN << >>
                      ELSE trim(text.message),
          reasoning |-> text.reasoning,
          confidence |-> IF text.confidence.typeof = "number"
                         THEN text.confidence.value ELSE 50]

\* callSupervisorModel()
callSupervisorModel(failure, response) ==
    IF failure = "model not found"
    THEN Returned(safeContinue("Model not found in registry"))
    ELSE IF failure = "loader"
    THEN Thrown
    ELSE IF failure = "session"
    THEN Returned(safeContinue("Failed to create supervisor session"))
    ELSE IF failure = "prompt"
    THEN Returned(safeContinue("Supervisor prompt failed"))
    ELSE Returned(parseDecision(response))

\* analyze(), once loadSystemPrompt and buildSnapshot have returned.
analyze(agentIsIdle, failure, response) ==
    LET called == callSupervisorModel(failure, response)
    IN IF called.threw THEN AnalyzeFallback(agentIsIdle) ELSE called.decision

\* The handlers resumed with what analyze() makes of the call.
TurnEndReturns(k, failure, response, now) ==
    TurnEndResume(k, analyze(FALSE, failure, response), now)

AgentEndReturns(k, failure, response, now) ==
    AgentEndResume(k, analyze(TRUE, failure, response), now)

NextAnalysis ==
    \/ \E outcome \in OperatorOutcomes, now \in Times :
           CmdStart(outcome, Null, TRUE, Null, now) /\ Bounded'
    \/ \E level \in {"medium", "high"} : CmdSensitivity(level) /\ Bounded'
    \/ \E fails \in BOOLEAN : TurnEnd(2, fails) /\ Bounded'
    \/ \E failure \in CallFailures, response \in Texts, now \in Times :
           TurnEndReturns(1, failure, response, now) /\ Bounded'
    \/ \E fails \in BOOLEAN : AgentEnd(fails) /\ Bounded'
    \/ \E failure \in CallFailures, response \in Texts, now \in Times :
           AgentEndReturns(1, failure, response, now) /\ Bounded'
    \/ CmdStop /\ Bounded'

SpecAnalysis == Init /\ [][NextAnalysis]_vars

-----------------------------------------------------------------------------
(* Properties of error handling *)

\* The safe default: continue, confidence 0, no message.
SafeDefault(d) ==
    d # Null /\ d.action = "continue" /\ d.confidence = 0 /\ ~d.hasMessage

\* C16: callSupervisorModel never raises to its caller: a model that is not
\* found, a failing resource loader, a failing session creation and a failing
\* prompt each return the decision continue with confidence 0, so that a
\* handler resumed after such a failure holds that decision.
C16_NeverRaises ==
    /\ \A failure \in CallFailures, response \in Responses :
          LET called == callSupervisorModel(failure, response)
          IN /\ ~called.threw
             /\ failure # "none" => SafeDefault(called.decision)
    /\ \A k \in DOMAIN pending, failure \in CallFailures \ {"none"},
          response \in Responses, now \in Times :
          /\ ~ENABLED (TurnEndReturns(k, failure, response, now)
                         /\ ~SafeDefault(last'.decision))
          /\ ~ENABLED (AgentEndReturns(k, failure, response, now)
                         /\ ~SafeDefault(last'.decision))

\* C16 for the failures other than the resource loader's.
C16_ExceptLoader ==
    /\ \A failure \in CallFailures \ {"loader"}, response \in Responses :
          LET called == callSupervisorModel(failure, response)
          IN /\ ~called.threw
             /\ failure # "none" => SafeDefault(called.decision)
    /\ \A k \in DOMAIN pending, failure \in CallFailures \ {"none", "loader"},
          response \in Responses, now \in Times :
          /\ ~ENABLED (TurnEndReturns(k, failure, response, now)
                         /\ ~SafeDefault(last'.decision))
          /\ ~ENABLED (AgentEndReturns(k, failure, response, now)
                         /\ ~SafeDefault(last'.decision))

\* C16 witness: an end-of-run handler resumed with the substitute of a raised
\* call, not with the safe default.
C16_Witness ==
    /\ last.on = "agent_end" /\ last.decision # Null
    /\ last.decision.reasoning = "Analysis error"
    /\ last.decision.action = "steer"

C17_WitnessWorking ==
    /\ last.on = "turn_end" /\ last.decision # Null
    /\ last.decision.reasoning = "Analysis error"
    /\ last.decision.action = "continue" /\ last.sent = Null

\* The record `new` is the record `old` but for the turn counter and at most
\* one appended intervention carrying the generic message.
AfterFailure(old, new) ==
    IF old = Null THEN new = Null
    ELSE /\ new # Null
         /\ [new EXCEPT !.turnCount = old.turnCount,
                        !.interventions = old.interventions] = old
         /\ new.turnCount \in {old.turnCount, old.turnCount + 1}
         /\ \/ new.interventions = old.interventions
            \/ /\ Len(new.interventions) = Len(old.interventions) + 1
               /\ SubSeq(new.interventions, 1, Len(old.interventions))
                     = old.interventions
               /\ new.interventions[Len(new.interventions)].message
                     = FallbackMessage

\* The record after every step in which the subsystem failed: analyze
\* rejecting before the call (prompt file, snapshot) and the call failing.
FailuresKeepRecord ==
    /\ \A turnIndex \in 0..MaxTurnIndex :
          ~ENABLED (TurnEnd(turnIndex, TRUE) /\ ~AfterFailure(state, state'))
    /\ ~ENABLED (AgentEnd(TRUE) /\ ~AfterFailure(state, state'))
    /\ \A k \in DOMAIN pending, failure \in CallFailures \ {"none"},
          response \in Responses, now \in Times :
          /\ ~ENABLED (TurnEndReturns(k, failure, response, now)
                         /\ ~AfterFailure(state, state'))
          /\ ~ENABLED (AgentEndReturns(k, failure, response, now)
                         /\ ~AfterFailure(state, state'))

\* C18: no failure inside the subsystem (loading the system prompt, building
\* the snapshot, resolving the model, creating the session, the transport)
\* leaves a mid-run or end-of-run handler as an exception, and after a
\* failure the record differs from the one before by at most one appended
\* generic intervention and the turn counter.
C18_FailuresContained ==
    /\ last.threw = FALSE
    /\ FailuresKeepRecord

\* C18, the part about the record alone.
C18_RecordAfterFailure == FailuresKeepRecord

\* C18 witness: the end-of-run handler counted the run and then left with the
\* exception of analyze.
C18_Witness ==
    /\ last.on = "agent_end" /\ last.threw
    /\ state # Null /\ state.turnCount = 1 /\ state.interventions = << >>

-----------------------------------------------------------------------------
(* Properties of steering messages *)

\* A message of the response that is absent, empty or made of blanks only.
Blank(raw) == raw = Undefined \/ \A i \in DOMAIN raw : raw[i] = " "

\* C19: a steer whose message is absent or empty, or is only whitespace in
\* the response, changes nothing at the end of a run and in mid-run: no
\* intervention is recorded, nothing is delivered to the worker and the
\* idle-steer counter stays as it was.
C19_EmptySteerIsNoOp ==
    \A k \in DOMAIN pending, response \in Responses, now \in Times :
        (response.action = "steer" /\ Blank(response.message)) =>
            /\ ~ENABLED (AgentEndReturns(k, "none", response, now)
                           /\ ~NoEffect)
            /\ ~ENABLED (TurnEndReturns(k, "none", response, now)
                           /\ ~NoEffect)

\* C19 witness: an end-of-run handler received a steer whose message was
\* present and empty after trimming, and sent nothing.
C19_Witness ==
    /\ last.on = "agent_end" /\ last.decision # Null
    /\ last.decision.action = "steer" /\ last.decision.confidence = 90
    /\ last.decision.hasMessage /\ last.decision.message = << >>
    /\ last.sent = Null /\ idleSteers = 0 /\ Active

\* The same in mid-run, at a confidence that would deliver a message.
C19_WitnessMidRun ==
    /\ last.on = "turn_end" /\ last.decision # Null
    /\ last.decision.action = "steer" /\ last.decision.confidence = 90
    /\ last.decision.hasMessage /\ last.decision.message = << >>
    /\ last.sent = Null

-----------------------------------------------------------------------------
(* Steering loops: a worker that keeps finishing runs *)

MaxRunSteers == 7

\* The verdicts of an end-of-run analysis that end a run with an outcome.
RunDecisions ==
    {d \in StagnationDecisions : d.action \in {"steer", "done"}}

BoundedRuns ==
    /\ Len(pending) <= MaxInFlight
    /\ idleSteers <= MaxRunSteers
    /\ state # Null =>
          /\ Len(state.interventions) <= MaxRunSteers
          /\ state.turnCount <= MaxRunSteers + 1

\* The worker finishes a run: agent_end up to the analysis. A run is started
\* only while its steer still fits the bound.
RunEnds == AgentEnd(FALSE) /\ idleSteers < MaxRunSteers /\ BoundedRuns'

\* The analysis of the run returns and the handler acts on the verdict.
RunAnalysed ==
    \E d \in RunDecisions, now \in Times :
        AgentEndResume(1, d, now) /\ BoundedRuns'

\* A mid-run analysis returns and the handler acts on the verdict.
MidRunAnalysed ==
    \E d \in StagnationDecisions, now \in Times :
        TurnEndResume(1, d, now) /\ BoundedRuns'

NextRuns ==
    \/ RunEnds
    \/ RunAnalysed
    \/ TurnEnd(2, FALSE) /\ BoundedRuns'
    \/ MidRunAnalysed
    \/ CmdStop /\ BoundedRuns'
    \/ \E outcome \in OperatorOutcomes, now \in Times :
           ~Active /\ CmdStart(outcome, Null, TRUE, Null, now) /\ BoundedRuns'

\* One supervision at a time, started by the operator and never restarted
\* while active. The worker keeps finishing runs, also when mid-run analyses
\* come in between (strong fairness), and every awaited analysis returns.
SpecRuns ==
    /\ Init /\ [][NextRuns]_vars
    /\ SF_vars(RunEnds) /\ WF_vars(RunAnalysed) /\ WF_vars(MidRunAnalysed)

-----------------------------------------------------------------------------
(* The operator's settings: /supervise model, sensitivity, stop, <outcome> *)

\* ctx.model, the model chosen in the picker, the arguments of
\* `/supervise model <spec>`, whether .pi/ exists and can be written.
ChatModels == {Null, OtherModel}
PickedModel == [provider |-> <<"mistral">>, modelId |-> <<"large">>]
PickerChoices == {Null, PickedModel}
CommandSpecs == {<<"gpt-4o">>, <<"google", "/", "gemini">>}
Writable == BOOLEAN

NextSettings ==
    \/ \E outcome \in OperatorOutcomes, sessionModel \in ChatModels,
          apiKey \in BOOLEAN, picked \in PickerChoices, now \in Times :
           CmdStart(outcome, sessionModel, apiKey, picked, now) /\ Bounded'
    \/ CmdStop /\ Bounded'
    \/ \E level \in Sensitivity \cup {"bogus"} : CmdSensitivity(level) /\ Bounded'
    \/ \E spec \in CommandSpecs, writable \in Writable :
           CmdModelSet(spec, writable) /\ Bounded'
    \/ \E picked \in PickerChoices, writable \in Writable :
           CmdModelPick(picked, writable) /\ Bounded'
    \/ AgentEnd(FALSE) /\ Bounded'
    \/ \E d \in StagnationDecisions, now \in Times :
           AgentEndResume(1, d, now) /\ Bounded'

SpecSettings == Init /\ [][NextSettings]_vars

\* The resolution order as documented: the record in memory, the config
\* file, the chat model, the built-in default.
FirstAvailable(sessionModel) ==
    IF state # Null THEN [provider |-> state.provider, modelId |-> state.modelId]
    ELSE IF workspaceModel # Null THEN workspaceModel
    ELSE IF sessionModel # Null THEN sessionModel
    ELSE [provider |-> <<"anthropic">>,
          modelId |-> <<"claude-haiku-4-5-20251001">>]

\* The operator start made a record with another model than `model`.
StartsWithOther(model) ==
    /\ last'.notice = "supervisor active"
    /\ [provider |-> state'.provider, modelId |-> state'.modelId] # model

-----------------------------------------------------------------------------
(* Properties of decision parsing *)

\* The response is a JSON object whose action is one of the three.
ValidAction(text) ==
    text.json = "object" /\ text.action \in {"continue", "steer", "done"}

\* C22: parsing returns the safe default (continue, confidence 0) for every
\* response whose action is not exactly continue, steer or done, an absent
\* action included, and for every response that is not JSON; for a valid
\* action it returns that action. The handlers resume with that decision.
C22_ParseSafeDefault ==
    /\ \A text \in Texts :
          IF ValidAction(text)
          THEN parseDecision(text).action = text.action
          ELSE SafeDefault(parseDecision(text))
    /\ \A k \in DOMAIN pending, text \in Texts, now \in Times :
          LET Expected == IF ValidAction(text)
                          THEN last'.decision.action = text.action
                          ELSE SafeDefault(last'.decision)
          IN /\ ~ENABLED (AgentEndReturns(k, "none", text, now) /\ ~Expected)
             /\ ~ENABLED (TurnEndReturns(k, "none", text, now) /\ ~Expected)

\* C22 witness: an end-of-run handler resumed with the safe default of a
\* response whose action was not valid.
C22_Witness ==
    /\ last.on = "agent_end" /\ last.decision # Null
    /\ last.decision.reasoning = "Invalid action in supervisor response"
    /\ last.decision.action = "continue" /\ last.decision.confidence = 0

\* The same for a response that was not JSON.
C22_WitnessNotJson ==
    /\ last.on = "agent_end" /\ last.decision # Null
    /\ last.decision.reasoning = "Failed to parse supervisor JSON decision"
    /\ last.decision.action = "continue" /\ last.decision.confidence = 0

\* The response has a valid action and no numeric confidence.
NoConfidence(text) ==
    ValidAction(text) /\ text.confidence.typeof # "number"

\* C23: a decision parsed from a valid action with an absent or non-numeric
\* confidence has confidence 0.5; a steer of that kind (with a message) is
\* never delivered by a mid-run handler, at medium or high sensitivity, and
\* is delivered by an end-of-run handler.
C23_DefaultConfidence ==
    /\ \A text \in Responses :
          NoConfidence(text) => parseDecision(text).confidence = 50
    /\ \A k \in DOMAIN pending, text \in Responses, now \in Times :
          (/\ NoConfidence(text) /\ text.action = "steer"
           /\ ~Blank(text.message)) =>
              /\ ~ENABLED (/\ TurnEndReturns(k, "none", text, now)
                           /\ ~(NoEffect /\ last'.decision.confidence = 50))
              /\ pending[k].handler = "agent_end" =>
                    ENABLED AgentEndReturns(k, "none", text, now)
              /\ ~ENABLED (/\ AgentEndReturns(k, "none", text, now)
                           /\ ~(/\ last'.decision.confidence = 50
                                /\ last'.sent =
                                      [message |-> trim(text.message),
                                       deliverAs |-> Undefined]))

\* C23 witness: an end-of-run steer with the default confidence was
\* delivered.
C23_Witness ==
    /\ last.on = "agent_end" /\ last.sent # Null
    /\ last.decision.action = "steer" /\ last.decision.confidence = 50
    /\ last.sent.message = SteerMessage

\* C23 witness in mid-run: a steer with a message and the default confidence
\* reached the handler at high sensitivity and was not delivered.
C23_WitnessMidRun ==
    /\ last.on = "turn_end" /\ last.decision # Null
    /\ last.decision.action = "steer" /\ last.decision.confidence = 50
    /\ last.decision.message = SteerMessage /\ last.sent = Null
    /\ state # Null /\ state.sensitivity = "high"

-----------------------------------------------------------------------------
(* Properties of the counters *)

\* C24: no mid-run event changes the idle-steer counter: neither the event
\* itself nor the handler resumed with a verdict, and a mid-run steer that is
\* delivered appends its intervention to the record and leaves the counter
\* as it was, so that the next end-of-run analysis is as lenient as before.
C24_MidRunNeverCounts ==
    /\ \A turnIndex \in 0..MaxTurnIndex, fails \in BOOLEAN :
          ~ENABLED (TurnEnd(turnIndex, fails) /\ idleSteers' # idleSteers)
    /\ \A k \in DOMAIN pending, d \in StagnationDecisions, now \in Times :
          /\ ~ENABLED (TurnEndResume(k, d, now) /\ idleSteers' # idleSteers)
          /\ state # Null =>
                ~ENABLED (/\ TurnEndResume(k, d, now)
                          /\ last'.sent # Null
                          /\ ~(/\ Len(state'.interventions)
                                     = Len(state.interventions) + 1
                               /\ Stagnating(idleSteers')
                                     = Stagnating(idleSteers)))

\* C24 witness: a mid-run steer was delivered as the sixth intervention of
\* the record while the counter stands at 4, below the stagnation limit.
C24_Witness ==
    /\ last.on = "turn_end" /\ last.sent # Null
    /\ Active /\ Len(state.interventions) = 6 /\ idleSteers = 4

\* C25: an end-of-run analysis that returns continue changes nothing: the
\* record is as before (active if it was), no intervention is appended,
\* nothing is handed to the worker, no entry is persisted and the idle-steer
\* counter keeps its value.
C25_ContinueChangesNothing ==
    \A k \in DOMAIN pending, d \in StagnationDecisions, now \in Times :
        (pending[k].handler = "agent_end" /\ d.action = "continue") =>
            /\ ENABLED AgentEndResume(k, d, now)
            /\ ~ENABLED (AgentEndResume(k, d, now) /\ ~NoEffect)

\* C25 witness: continue came back from a lenient end-of-run analysis after
\* five steers; the supervision is active and the counter still at 5.
C25_Witness ==
    /\ last.on = "agent_end" /\ last.decision # Null
    /\ last.decision.action = "continue"
    /\ last.sent = Null /\ last.persisted = 0
    /\ Active /\ idleSteers = 5 /\ Len(state.interventions) = 5

\* The step is a start (operator or tool) or a session-restore.
StartOrRestore ==
    \/ last'.on = "/supervise" /\ last'.notice = "supervisor active"
    \/ last'.on = "start_supervision" /\ last'.notice = "supervision active"
    \/ last'.on = "session"

\* The interventions before the step are the first ones after it, unchanged.
HistoryKept ==
    IF state = Null THEN state' = Null
    ELSE /\ state' # Null
         /\ Len(state'.interventions) >= Len(state.interventions)
         /\ SubSeq(state'.interventions, 1, Len(state.interventions))
               = state.interventions

\* C26: the intervention sequence is append-only: every step other than a
\* start or a session-restore leaves the interventions it found as the
\* leading part of the sequence, unmodified; stop and done keep the history.
\* (By transitivity the same holds across any run of such steps.)
C26_AppendOnly == [][StartOrRestore \/ HistoryKept]_vars

\* C26 witness: a record closed by a done verdict still carries the three
\* interventions made before, each with the run it was made in.
C26_Witness ==
    /\ last.on = "agent_end" /\ last.decision # Null
    /\ last.decision.action = "done"
    /\ state # Null /\ state.active = FALSE
    /\ Len(state.interventions) = 3
    /\ \A i \in 1..3 : state.interventions[i].turnCount = i

\* The step is a start, operator's or tool's.
StartStep ==
    \/ last'.on = "/supervise" /\ last'.notice = "supervisor active"
    \/ last'.on = "start_supervision" /\ last'.notice = "supervision active"

\* The step is an end-of-run event handled while active.
RunCounted == last'.on = "agent_end" /\ last'.analyze = "idle"

\* The turn counter of the record is as before the step (a step from or to
\* no record has no counter to compare).
SameTurnCount ==
    state = Null \/ state' = Null \/ state'.turnCount = state.turnCount

\* C27: turnCount is 0 right after a start, grows by exactly 1 with each
\* end-of-run event handled while active, when the event arrives, and is
\* changed by no other step.
C27_TurnCount ==
    [][IF StartStep THEN state'.turnCount = 0
       ELSE IF RunCounted
       THEN state # Null /\ state'.turnCount = state.turnCount + 1
       ELSE SameTurnCount]_vars

\* C27 for all steps but the session-restores.
C27_TurnCountButRestore ==
    [][IF StartStep THEN state'.turnCount = 0
       ELSE IF RunCounted
       THEN state # Null /\ state'.turnCount = state.turnCount + 1
       ELSE last'.on = "session" \/ SameTurnCount]_vars

\* C27 witness: the first end-of-run event after a start has been counted
\* and its analysis is awaited.
C27_Witness ==
    /\ last.on = "agent_end" /\ last.analyze = "idle" /\ ~last.threw
    /\ Active /\ state.turnCount = 1 /\ Len(pending) = 1

-----------------------------------------------------------------------------
(* Overlapping analyses: events that arrive while an analysis is awaited *)

MaxOverlap == 2
MaxOverlapRuns == 2

BoundedOverlap ==
    /\ Len(pending) <= MaxOverlap
    /\ state # Null =>
          /\ state.turnCount <= MaxOverlapRuns
          /\ Len(state.interventions) <= MaxOverlapRuns

NextOverlap ==
    \/ \E outcome \in OperatorOutcomes, now \in Times :
           CmdStart(outcome, Null, TRUE, Null, now) /\ BoundedOverlap'
    \/ TurnEnd(2, FALSE) /\ BoundedOverlap'
    \/ \E k \in 1..MaxOverlap, d \in StagnationDecisions, now \in Times :
           TurnEndResume(k, d, now) /\ BoundedOverlap'
    \/ AgentEnd(FALSE) /\ BoundedOverlap'
    \/ \E k \in 1..MaxOverlap, d \in StagnationDecisions, now \in Times :
           AgentEndResume(k, d, now) /\ BoundedOverlap'
    \/ CmdStop /\ BoundedOverlap'

SpecOverlap == Init /\ [][NextOverlap]_vars

\* C28: analyses are serialized: at no time are two of them in flight.
C28_OneInFlight == Len(pending) <= 1

\* C28 witness: the end-of-run analysis of one run is still awaited while a
\* mid-run event of the next run has started another, on the same record.
C28_Witness ==
    /\ Len(pending) = 2 /\ Active
    /\ pending[1].handler = "agent_end" /\ pending[1].live
    /\ pending[2].handler = "turn_end" /\ pending[2].live

-----------------------------------------------------------------------------
(* Properties of the settings commands *)

\* The last command was a valid sensitivity change issued while inactive.
SensitivityDeferred ==
    /\ last.on = "/supervise sensitivity"
    /\ last.notice = "will be set on next /supervise"

\* C29: after a valid `sensitivity <level>` command issued while supervision
\* is inactive, which announces the level for the next /supervise, the next
\* operator start makes a record with that level.
C29_NextStartUsesLevel ==
    SensitivityDeferred =>
        \A outcome \in OperatorOutcomes, sessionModel \in ChatModels,
           apiKey \in BOOLEAN, picked \in PickerChoices, now \in Times :
            ~ENABLED (/\ CmdStart(outcome, sessionModel, apiKey, picked, now)
                      /\ last'.notice = "supervisor active"
                      /\ state'.sensitivity # last.arg.level)

\* What the start does instead: it takes the level of the record in memory,
\* or medium when there is none; and the command issued while inactive
\* leaves the whole program state as it was.
C29_StartKeepsRecordLevel ==
    /\ \A outcome \in OperatorOutcomes, sessionModel \in ChatModels,
          apiKey \in BOOLEAN, picked \in PickerChoices, now \in Times :
          ~ENABLED (/\ CmdStart(outcome, sessionModel, apiKey, picked, now)
                    /\ last'.notice = "supervisor active"
                    /\ state'.sensitivity #
                          (IF state # Null THEN state.sensitivity ELSE "medium"))
    /\ ~isActive(state) =>
          \A level \in Sensitivity :
              ~ENABLED (CmdSensitivity(level) /\ prog' # prog)

\* C29 witness: with a stopped record of low sensitivity in memory the
\* operator has asked for high and was told it will be set on the next start.
C29_Witness ==
    /\ SensitivityDeferred /\ last.arg = [level |-> "high"]
    /\ state # Null /\ state.active = FALSE /\ state.sensitivity = "low"

\* The last command was a model change issued while inactive.
ModelDeferred ==
    /\ last.on = "/supervise model"
    /\ last.notice \in {"model set, takes effect on next /supervise, saved",
                        "model set, takes effect on next /supervise"}

\* An operator start, with an API key at hand, that makes a record with
\* another model than the one announced.
StartIgnoresAnnounced ==
    \E outcome \in OperatorOutcomes, sessionModel \in ChatModels,
       picked \in PickerChoices, now \in Times :
        ENABLED (/\ CmdStart(outcome, sessionModel, TRUE, picked, now)
                 /\ StartsWithOther(last.arg))

\* C30: after a `model <provider/modelId>` command issued while supervision
\* is inactive, which announces that it takes effect on the next /supervise,
\* the next operator start makes a record with that model, also when a
\* stopped record of an earlier supervision is in memory.
C30_NextStartUsesModel == ModelDeferred => ~StartIgnoresAnnounced

\* What holds instead: the announced model is used when there is no record
\* in memory and the config file could be written.
C30_UsedWhenSavedAndNoRecord ==
    (/\ ModelDeferred /\ state = Null
     /\ last.notice = "model set, takes effect on next /supervise, saved") =>
        /\ workspaceModel = last.arg
        /\ ~StartIgnoresAnnounced

\* C30 witness: with a stopped record in memory the operator has set another
\* model, which was saved to the config file and announced for the next
\* start.
C30_Witness ==
    /\ ModelDeferred /\ workspaceModel = last.arg
    /\ state # Null /\ state.active = FALSE
    /\ [provider |-> state.provider, modelId |-> state.modelId] # last.arg

-----------------------------------------------------------------------------
(* Properties of the analysis prompt *)

\* The line `label` of the prompt is followed by `value`.
Labelled(text, label, value) ==
    \E i \in 1..(Len(text) - 1) : text[i] = label /\ text[i + 1] = value

HasLine(text, line) == \E i \in DOMAIN text : text[i] = line

\* C31: the prompt of every analysis carries the outcome of the record, its
\* sensitivity label and the status line of its trigger (idle at end of run,
\* working in mid-run), and carries the lenient clause exactly when the
\* analysis is an end-of-run one invoked with the idle-steer counter at 5 or
\* more.
C31_PromptComplete ==
    last.prompt # Null =>
        /\ state # Null
        /\ Labelled(last.prompt.text, "DESIRED OUTCOME:", state.outcome)
        /\ Labelled(last.prompt.text, "SENSITIVITY:", state.sensitivity)
        /\ last.on = "agent_end" =>
              /\ HasLine(last.prompt.text, "AGENT STATUS: IDLE")
              /\ ~HasLine(last.prompt.text, "AGENT STATUS: WORKING")
        /\ last.on = "turn_end" =>
              /\ HasLine(last.prompt.text, "AGENT STATUS: WORKING")
              /\ ~HasLine(last.prompt.text, "AGENT STATUS: IDLE")
        /\ HasLine(last.prompt.text, "STAGNATION")
              <=> (last.on = "agent_end" /\ idleSteers >= 5)

\* C31 witnesses: a lenient end-of-run prompt, and a mid-run prompt built
\* while the counter is past 5.
C31_Witness ==
    /\ last.on = "agent_end" /\ last.prompt # Null /\ idleSteers = 5
    /\ HasLine(last.prompt.text, "STAGNATION")

C31_WitnessMidRun ==
    /\ last.on = "turn_end" /\ last.prompt # Null /\ idleSteers = 6
    /\ ~HasLine(last.prompt.text, "STAGNATION")

\* The index of the first line `line` in the prompt, 0 when it has none.
LineOf(text, line) ==
    IF HasLine(text, line)
    THEN CHOOSE i \in DOMAIN text :
            text[i] = line /\ \A j \in 1..(i - 1) : text[j] # line
    ELSE 0

\* C32: in the prompt the outcome text appears again near the end, after the
\* conversation snapshot and the intervention history.
C32_OutcomeRepeated ==
    last.prompt # Null =>
        LET text == last.prompt.text
            history == LineOf(text, "(intervention history)")
        IN /\ history > LineOf(text, "(snapshot)")
           /\ \E i \in (history + 1)..Len(text) : text[i] = last.prompt.outcome

\* What the template has: the outcome once, as the second line, before the
\* snapshot and the history; the lines after the history are the two fixed
\* closing lines.
C32_OutcomeOnlyAtTop ==
    last.prompt # Null =>
        LET text == last.prompt.text
            history == LineOf(text, "(intervention history)")
        IN /\ LineOf(text, "(snapshot)") > 2 /\ history > LineOf(text, "(snapshot)")
           /\ text[2] = last.prompt.outcome
           /\ \A i \in 3..Len(text) : text[i] # last.prompt.outcome
           /\ SubSeq(text, history + 1, Len(text))
                 = <<"Analyze the conversation and the agent's current state.",
                     "Respond with JSON only.">>

\* C32 witness: a prompt was built for the outcome the operator gave.
C32_Witness ==
    /\ last.prompt # Null /\ last.prompt.outcome = "goal A"
    /\ last.prompt.text[2] = "goal A"
    /\ last.on = "agent_end"

-----------------------------------------------------------------------------
(* Properties of the confidence *)

InUnitRange(confidence) == confidence >= 0 /\ confidence <= 100

\* C33: every decision the analysis path returns has a confidence within
\* [0,1], whatever the response contains, so that the value a handler
\* compares with the mid-run threshold is in that range.
C33_ConfidenceInRange ==
    /\ \A text \in Texts : InUnitRange(parseDecision(text).confidence)
    /\ \A failure \in CallFailures, text \in Texts, agentIsIdle \in BOOLEAN :
          InUnitRange(analyze(agentIsIdle, failure, text).confidence)
    /\ last.decision # Null => InUnitRange(last.decision.confidence)

\* What the parse does give: a confidence in range for every response whose
\* confidence is absent, not a number, or a number in range, and for every
\* failure of the call.
C33_InRangeUnlessResponseIsNot ==
    /\ \A text \in Texts :
          (text.json = "object" /\ text.confidence.typeof = "number"
              => InUnitRange(text.confidence.value))
            => InUnitRange(parseDecision(text).confidence)
    /\ \A failure \in CallFailures \ {"none"}, text \in Texts,
          agentIsIdle \in BOOLEAN :
          InUnitRange(analyze(agentIsIdle, failure, text).confidence)

\* C33 witness: a mid-run steer was delivered on a confidence of 1.5.
C33_Witness ==
    /\ last.on = "turn_end" /\ last.sent # Null
    /\ last.decision.action = "steer" /\ last.decision.confidence = 150

-----------------------------------------------------------------------------
(* Properties of the in-flight analyses *)

\* The step hands a steering message to pi.sendUserMessage.
Delivers == last'.sent # Null

\* The step appends one intervention to the record the manager holds.
Appends ==
    /\ state # Null /\ state' # Null
    /\ Len(state'.interventions) = Len(state.interventions) + 1
    /\ SubSeq(state'.interventions, 1, Len(state.interventions))
          = state.interventions

\* C34: each delivered steering message has exactly one intervention record
\* and each record one message: every step, whatever events, commands and
\* restores came before it, delivers a message exactly if it appends one
\* intervention, so that the two numbers stay equal.
C34_OneRecordPerMessage == [][Delivers <=> Appends]_vars

\* What does hold: no intervention is appended without its message being
\* delivered, and a message is delivered without a record only when the
\* manager holds none.
C34_RecordUnlessNoRecord ==
    [][/\ Appends => Delivers
       /\ Delivers /\ state # Null => Appends
       /\ Delivers /\ state = Null => state' = Null /\ log' = log]_vars

\* C34 witness: a message was delivered after a restore had left the manager
\* without a record.
C34_Witness ==
    /\ last.sent # Null /\ state = Null /\ last.persisted = 0

\* C34 witness: a message was delivered and recorded.
C34_WitnessRecorded ==
    /\ last.sent # Null /\ state # Null /\ last.persisted = 1
    /\ state.interventions[Len(state.interventions)].message = last.sent.message

\* C35: while the record is inactive no step appends an intervention and no
\* step delivers a steering message, also when the stop was processed while
\* an analysis was in flight and that analysis then returns steer.
C35_QuietWhileInactive ==
    [][state # Null /\ ~isActive(state) => ~Delivers /\ ~Appends]_vars

\* What does hold: with an inactive record only a handler that was suspended
\* in its analysis when the record was stopped delivers or appends; a handler
\* that finds the record inactive when its event arrives does neither.
C35_OnlyInFlightActsWhileInactive ==
    [][state # Null /\ ~isActive(state) /\ (Delivers \/ Appends)
          => /\ pending # << >>
             /\ Len(pending') = Len(pending) - 1
             /\ last'.on \in {"turn_end", "agent_end"}
             /\ last'.decision # Null /\ last'.decision.action = "steer"]_vars

\* C35 witness: a steer was delivered and recorded on a stopped record.
C35_Witness ==
    /\ state # Null /\ state.active = FALSE
    /\ last.sent # Null /\ last.persisted = 1
    /\ Len(state.interventions) = 1

\* The step resumes the one suspended handler with the decision of its
\* analysis.
Resumes ==
    /\ Len(pending) = 1 /\ pending' = << >>
    /\ last'.on = pending[1].handler /\ last'.decision # Null

\* The record the handler was triggered on has been replaced since.
Stale == ~pending[1].live

\* C36: a decision is applied only to the record that was current when its
\* analysis was triggered: when that record was replaced while the analysis
\* was in flight, the stale decision appends no intervention to the new
\* record, does not increment the steer counter and does not deactivate the
\* new record.
C36_StaleDecisionDropped ==
    [][Resumes /\ Stale
          => /\ ~Appends
             /\ idleSteers' <= idleSteers
             /\ isActive(state) => isActive(state')]_vars

\* What does hold: a stale continue changes nothing, and a stale steer or
\* done acts on the record the manager holds now as it would have on its own.
C36_StaleDecisionHitsCurrentRecord ==
    [][Resumes /\ Stale =>
        LET d == last'.decision
            acts == IF pending[1].handler = "agent_end"
                    THEN d.action = "steer" /\ HasText(d)
                    ELSE MidRunSteers(d, Threshold(pending[1].s.sensitivity))
        IN /\ acts => /\ Delivers
                      /\ state # Null => Appends
                      /\ pending[1].handler = "agent_end"
                            => idleSteers' = idleSteers + 1
           /\ pending[1].handler = "agent_end" /\ ~acts /\ d.action = "done"
                 => state' = stop(state) /\ idleSteers' = 0
           /\ ~acts /\ ~(pending[1].handler = "agent_end" /\ d.action = "done")
                 => UNCHANGED <<state, idleSteers, log>>]_vars

\* C36 witness: the record was started after the run ended (no run counted
\* on it) and holds the intervention of that run's analysis.
C36_Witness ==
    /\ isActive(state) /\ state.turnCount = 0
    /\ last.on = "agent_end" /\ last.sent # Null
    /\ Len(state.interventions) = 1 /\ state.interventions[1].turnCount = 1
    /\ idleSteers = 1

\* C36 witness: a record no run was counted on was deactivated by done.
C36_WitnessDone ==
    /\ state # Null /\ state.active = FALSE /\ state.turnCount = 0
    /\ last.on = "agent_end" /\ last.decision # Null
    /\ last.decision.action = "done" /\ last.persisted = 1

\* C37: no mid-run intervention is delivered while the record's sensitivity
\* is low, and a mid-run decision is measured against the threshold of the
\* sensitivity that gated its trigger, also when the sensitivity is changed
\* while the analysis is in flight.
C37_GatedSensitivityDecides ==
    [][Resumes /\ pending[1].handler = "turn_end" =>
          /\ Delivers /\ state # Null => state.sensitivity # "low"
          /\ Delivers <=> MidRunSteers(last'.decision,
                                       Threshold(pending[1].gate))]_vars

\* What does hold: the threshold is the one of the sensitivity `s` has when
\* the handler resumes; it is the gating one, and the record is not low, as
\* long as the level was not changed and the record not replaced in flight.
C37_SensitivityAtResumeDecides ==
    [][Resumes /\ pending[1].handler = "turn_end" =>
          /\ Delivers <=> MidRunSteers(last'.decision,
                                       Threshold(pending[1].s.sensitivity))
          /\ pending[1].live /\ pending[1].s.sensitivity = pending[1].gate
                => /\ state # Null /\ state.sensitivity = pending[1].gate
                   /\ state.sensitivity # "low"]_vars

\* C37 witness: a mid-run steer was delivered and recorded on a record whose
\* sensitivity is low.
C37_Witness ==
    /\ last.on = "turn_end" /\ last.sent # Null
    /\ state # Null /\ state.sensitivity = "low" /\ last.persisted = 1

\* C37 witness: an analysis gated under high is in flight and the record's
\* sensitivity is medium by now.
C37_WitnessRaised ==
    /\ Len(pending) = 1 /\ pending[1].handler = "turn_end" /\ pending[1].live
    /\ pending[1].gate = "high" /\ pending[1].s.sensitivity = "medium"
    /\ isActive(state) /\ state.sensitivity = "medium"

-----------------------------------------------------------------------------
(* Properties of the end-of-run steer *)

EndOfRunPending == {k \in DOMAIN pending : pending[k].handler = "agent_end"}

\* The step appended exactly one intervention carrying the decision's
\* message, counted one more idle steer and handed the message to the worker
\* as ordinary input (no deliverAs option).
SteeredEndOfRun(d) ==
    /\ Appends
    /\ state'.interventions[Len(state'.interventions)].message = d.message
    /\ idleSteers' = idleSteers + 1
    /\ last'.sent = [message |-> d.message, deliverAs |-> Undefined]

\* C38: an end-of-run analysis that returns steer with a non-empty message
\* is applied whatever its confidence and the sensitivity: the handler
\* appends one intervention, increments the idle-steer counter by one and
\* delivers the message as ordinary new input, even at confidence 0.
C38_EndOfRunSteerApplied ==
    \A k \in EndOfRunPending, d \in AnalyzeResults(TRUE), now \in Times :
        (d.action = "steer" /\ HasText(d)) =>
            ~ENABLED (AgentEndResume(k, d, now) /\ ~SteeredEndOfRun(d))

\* C38, where the manager still holds a record when the decision arrives.
C38_AppliedWithRecord ==
    \A k \in EndOfRunPending, d \in AnalyzeResults(TRUE), now \in Times :
        (state # Null /\ d.action = "steer" /\ HasText(d)) =>
            ~ENABLED (AgentEndResume(k, d, now) /\ ~SteeredEndOfRun(d))

\* C38 witness: under low, the steer of the analysis fallback (confidence 0)
\* was recorded, counted and delivered as ordinary input.
C38_Witness ==
    /\ isActive(state) /\ state.sensitivity = "low"
    /\ last.on = "agent_end" /\ last.decision # Null
    /\ last.decision.confidence = 0
    /\ last.sent = [message |-> FallbackMessage, deliverAs |-> Undefined]
    /\ Len(state.interventions) = 1 /\ idleSteers = 1 /\ last.persisted = 1

-----------------------------------------------------------------------------
(* Properties of the steer counter across sessions *)

WithinInterventions(st, steers) ==
    st # Null => steers <= Len(st.interventions)

\* C39: in every reachable state, also after a session-restore or switch,
\* the idle-steer counter does not exceed the number of interventions of the
\* current record.
C39_CounterWithinInterventions == WithinInterventions(state, idleSteers)

\* What does hold: every step but a session event keeps the counter within
\* the interventions of the record the manager holds.
C39_OnlySessionEventsBreakIt ==
    [][state # Null /\ state' # Null
          /\ WithinInterventions(state, idleSteers) /\ last'.on # "session"
          => WithinInterventions(state', idleSteers')]_vars

\* C39 witness: after a switch the manager holds an active record without
\* interventions and the counter still stands at one.
C39_Witness ==
    /\ last.on = "session" /\ isActive(state)
    /\ state.interventions = << >> /\ idleSteers = 1

-----------------------------------------------------------------------------
(* model-client.ts: callSupervisorModel step by step, one call at a time *)

\* Text deltas the session emits during one prompt, at most.
MaxDeltas == 3

\* The optional AbortSignal: not supplied, supplied and not aborted, or
\* supplied and aborted already when the call begins.
Signals == {"none", "armed", "fired"}

\* The responses the accumulated text may amount to.
CallResponses ==
    {[json |-> "syntax error"],
     [json |-> "object", action |-> "steer", message |-> SteerMessage,
      reasoning |-> "r", confidence |-> [typeof |-> "number", value |-> 90]],
     [json |-> "object", action |-> "done", message |-> Undefined,
      reasoning |-> "r", confidence |-> [typeof |-> "undefined", value |-> 0]]}

\* The locals of one call: where it is suspended (pc), the signal and where
\* the call was when it fired ("" if it has not, "before" if it had on
\* entry), the session, whether onAbort is registered on the signal and the
\* delta handler on the session, the deltas accumulated, how often abort,
\* unsubscribe, removeEventListener and dispose were called, and what the
\* call gave its caller.
CallFrame(signal) ==
    [handler |-> "callSupervisorModel", pc |-> "reload",
     signal |-> signal, firedAt |-> IF signal = "fired" THEN "before" ELSE "",
     session |-> "none", listening |-> FALSE, subscribed |-> FALSE,
     deltas |-> 0, aborts |-> 0, unsubscribes |-> 0, removes |-> 0,
     disposes |-> 0, result |-> Null]

InCall == pending # << >> /\ pending[1].handler = "callSupervisorModel"

Suspended(pc) == InCall /\ pending[1].pc = pc

Settled == pending = << >> \/ (InCall /\ pending[1].pc \in {"returned", "threw"})

\* Lines 32-45: the registry lookup, then `await loader.reload()`.
CallBegin(signal, found) ==
    /\ Settled
    /\ pending' = IF found THEN <<CallFrame(signal)>>
                  ELSE <<[CallFrame(signal) EXCEPT
                            !.pc = "returned",
                            !.result = callSupervisorModel("model not found",
                                                           [json |-> "null"])]>>
    /\ UNCHANGED <<state, idleSteers, log, workspaceModel, last>>

\* Line 45 settles: a rejection leaves the function.
LoaderReload(ok) ==
    /\ Suspended("reload")
    /\ pending' = IF ok THEN <<[pending[1] EXCEPT !.pc = "create"]>>
                  ELSE <<[pending[1] EXCEPT
                            !.pc = "threw",
                            !.result = callSupervisorModel("loader",
                                                           [json |-> "null"])]>>
    /\ UNCHANGED <<state, idleSteers, log, workspaceModel, last>>

\* Lines 48-77: createAgentSession settles; with a session the function
\* registers onAbort (if a signal was supplied), subscribes and calls
\* session.prompt, all without suspending in between.
CreateAgentSession(ok) ==
    /\ Suspended("create")
    /\ pending' = IF ok
                  THEN <<[pending[1] EXCEPT
                            !.pc = "prompt", !.session = "open",
                            !.listening = (pending[1].signal # "none"),
                            !.subscribed = TRUE]>>
                  ELSE <<[pending[1] EXCEPT
                            !.pc = "returned",
                            !.result = callSupervisorModel("session",
                                                           [json |-> "null"])]>>
    /\ UNCHANGED <<state, idleSteers, log, workspaceModel, last>>

\* Lines 66-74: the subscribed handler takes one text delta.
OnTextDelta ==
    /\ Suspended("prompt") /\ pending[1].subscribed
    /\ pending[1].deltas < MaxDeltas
    /\ pending' = <<[pending[1] EXCEPT !.deltas = @ + 1]>>
    /\ UNCHANGED <<state, idleSteers, log, workspaceModel, last>>

\* The caller's signal aborts while the call is suspended: an AbortSignal
\* fires once and runs the listeners registered at that moment; a { once }
\* listener is removed as it runs (lines 62-63).
SignalAbort ==
    /\ InCall /\ pending[1].pc \in {"reload", "create", "prompt"}
    /\ pending[1].signal = "armed"
    /\ pending' = <<[pending[1] EXCEPT
                       !.signal = "fired", !.firedAt = pending[1].pc,
                       !.aborts = IF pending[1].listening THEN @ + 1 ELSE @,
                       !.listening = FALSE]>>
    /\ UNCHANGED <<state, idleSteers, log, workspaceModel, last>>

\* Lines 76-86: session.prompt settles, the finally block runs, the function
\* returns.
PromptSettles(ok, response) ==
    /\ Suspended("prompt")
    /\ pending' = <<[pending[1] EXCEPT
                       !.pc = "returned",
                       !.unsubscribes = @ + 1, !.subscribed = FALSE,
                       !.removes = IF pending[1].signal # "none"
                                   THEN @ + 1 ELSE @,
                       !.listening = FALSE,
                       !.disposes = @ + 1, !.session = "disposed",
                       !.result = callSupervisorModel(
                                      IF ok THEN "none" ELSE "prompt",
                                      response)]>>
    /\ UNCHANGED <<state, idleSteers, log, workspaceModel, last>>

NextCall ==
    \/ \E signal \in Signals, found \in BOOLEAN : CallBegin(signal, found)
    \/ \E ok \in BOOLEAN : LoaderReload(ok)
    \/ \E ok \in BOOLEAN : CreateAgentSession(ok)
    \/ OnTextDelta
    \/ SignalAbort
    \/ \E ok \in BOOLEAN, response \in CallResponses :
           PromptSettles(ok, response)

SpecCall == Init /\ [][NextCall]_vars

-----------------------------------------------------------------------------
(* Properties of the call's cleanup *)

\* Once the session exists: nothing is released before the prompt settles,
\* and when the call has left, the delta handler was unsubscribed once, the
\* abort listener removed (once, if a signal was supplied) and the session
\* disposed once.
ReleasedOnce ==
    InCall /\ pending[1].session # "none" =>
        LET c == pending[1]
        IN IF c.pc = "prompt"
           THEN /\ c.unsubscribes = 0 /\ c.removes = 0 /\ c.disposes = 0
                /\ c.subscribed /\ c.session = "open"
           ELSE /\ c.pc = "returned" /\ c.result # Null /\ ~c.result.threw
                /\ c.unsubscribes = 1 /\ c.disposes = 1
                /\ c.removes = (IF c.signal = "none" THEN 0 ELSE 1)
                /\ ~c.subscribed /\ ~c.listening /\ c.session = "disposed"

FiredDuringCall(c) == c.firedAt \in {"reload", "create", "prompt"}

\* C40: once the session is created, every way out of the call (the prompt
\* resolves, the prompt fails, the signal aborts it) unsubscribes the delta
\* handler, removes the abort listener and disposes the session exactly
\* once; and when the supplied signal fired during the call, the session's
\* abort was invoked.
C40_ReleasedAndAborted ==
    /\ ReleasedOnce
    /\ InCall /\ pending[1].session # "none" /\ FiredDuringCall(pending[1])
          => pending[1].aborts = 1

\* What does hold: the release, and the session's abort invoked exactly when
\* the signal fired while the prompt was awaited.
C40_ReleasedAndAbortedInPrompt ==
    /\ ReleasedOnce
    /\ InCall => (pending[1].aborts = 1 <=> pending[1].firedAt = "prompt")
    /\ InCall => pending[1].aborts \in {0, 1}

\* C40 witness: the signal fired while the loader was awaited; the session
\* was created afterwards, never aborted, took all its deltas and was
\* released on the normal way out.
C40_Witness ==
    /\ Suspended("returned") /\ pending[1].firedAt = "reload"
    /\ pending[1].session = "disposed" /\ pending[1].aborts = 0
    /\ pending[1].deltas = MaxDeltas
    /\ pending[1].result.decision.action = "steer"

\* C40 witness: the signal fired during the prompt, the session was aborted,
\* the prompt failed and everything was released once.
C40_WitnessAborted ==
    /\ Suspended("returned") /\ pending[1].firedAt = "prompt"
    /\ pending[1].aborts = 1 /\ pending[1].disposes = 1
    /\ pending[1].unsubscribes = 1 /\ pending[1].removes = 1
    /\ pending[1].result.decision.reasoning = "Supervisor prompt failed"

====
